---- MODULE Spec2Model ----
(***************************************************************************)
(* The plugin-side VM adapter server (src/src/subnet/rpc/vm/server.rs):    *)
(* RPC handlers running concurrently over one inner VM guarded by a        *)
(* reader/writer lock, the engine-notification pump spawned by initialize, *)
(* and the engine-state conversion (src/src/subnet/rpc/snow/mod.rs).       *)
(*                                                                         *)
(* Every `.await` of a handler is a suspension point and ends an action;   *)
(* code between two awaits runs inside one action.  The inner VM is user   *)
(* code behind a trait object: each of its calls returns any value of its  *)
(* return type.                                                            *)
(***************************************************************************)
EXTENDS Integers, Sequences, FiniteSets, TLC

\* ------------------------------------------------------------------ bounds
\* Number of RPC requests the host issues in one run.
MaxReq == 2
\* Largest length of the db_servers list of an initialize request.
MaxDbServers == 2
\* Messages the inner VM enqueues on one notification channel in one run.
MaxSent == 2
\* Largest state code the host sends in a set_state request.
MaxStateCode == 5
\* Width in bits the model gives a block timestamp (u64 in the code).
TimeBits == 4
\* Handler descriptors the inner VM returns from one create_handlers call.
MaxHandlers == 2
\* The callers that use one wallet concurrently.
MaxCallers == 2
\* The longest endpoint list a wallet is built with.
MaxEndpoints == 3
\* The calls of pick_http_rpc that are followed.
MaxPicks == 4
\* Largest length of the db_servers list in the runs that follow the manager.
MaxDbList == 3
\* Most messages the inner VM sends in the runs that fill the channel.
MaxBurst == 102

\* --------------------------------------------------------------- constants
\* mpsc::channel(100)
ChannelCapacity == 100

\* Request numbers; 0 stands for "no request".
Reqs == 1..MaxReq

\* ------------------------------------------------------------- engine state
\* enum State { Initializing = 0, StateSyncing = 1, Bootstrapping = 2, NormalOp = 3 }
State == {"Initializing", "StateSyncing", "Bootstrapping", "NormalOp"}

\* `state as u32`: the discriminants of the enum.
StateAsU32(s) ==
    CASE s = "Initializing" -> 0
      [] s = "StateSyncing" -> 1
      [] s = "Bootstrapping" -> 2
      [] s = "NormalOp" -> 3

\* A seeded slip of the conversion: the last two arms exchanged.
TryFromSwapped(kind) ==
    CASE kind = StateAsU32("Initializing") -> [ok |-> TRUE, state |-> "Initializing"]
      [] kind = StateAsU32("StateSyncing") -> [ok |-> TRUE, state |-> "StateSyncing"]
      [] kind = StateAsU32("Bootstrapping") -> [ok |-> TRUE, state |-> "NormalOp"]
      [] kind = StateAsU32("NormalOp") -> [ok |-> TRUE, state |-> "Bootstrapping"]
      [] OTHER -> [ok |-> FALSE, state |-> "none"]

\* A seeded slip of the conversion: the catch-all arm yields the last variant.
TryFromSaturating(kind) ==
    CASE kind = StateAsU32("Initializing") -> [ok |-> TRUE, state |-> "Initializing"]
      [] kind = StateAsU32("StateSyncing") -> [ok |-> TRUE, state |-> "StateSyncing"]
      [] kind = StateAsU32("Bootstrapping") -> [ok |-> TRUE, state |-> "Bootstrapping"]
      [] OTHER -> [ok |-> TRUE, state |-> "NormalOp"]

\* impl TryFrom<u32> for State: the first matching arm, Err(()) otherwise.
TryFrom(kind) ==
    CASE kind = StateAsU32("Initializing") -> [ok |-> TRUE, state |-> "Initializing"]
      [] kind = StateAsU32("StateSyncing") -> [ok |-> TRUE, state |-> "StateSyncing"]
      [] kind = StateAsU32("Bootstrapping") -> [ok |-> TRUE, state |-> "Bootstrapping"]
      [] kind = StateAsU32("NormalOp") -> [ok |-> TRUE, state |-> "NormalOp"]
      [] OTHER -> [ok |-> FALSE, state |-> "none"]

\* ---------------------------------------------------------------- timestamps
\* A block timestamp is a u64; the model keeps TimeBits bits of it.
TimeModulus == 2 ^ TimeBits
TimeSignBit == 2 ^ (TimeBits - 1)

\* `t as i64`: the same bits read as a two's complement number.
AsI64(t) == IF t >= TimeSignBit THEN t - TimeModulus ELSE t

\* chrono's representable seconds, a proper sub-range of i64 on both sides.
ChronoMaxSecs == 2 ^ (TimeBits - 2) - 1
ChronoMinSecs == 0 - 2 ^ (TimeBits - 2)

\* Utc.timestamp(secs, 0) panics outside chrono's range;
\* timestamp_from_time gives {seconds, nanos} of the time point.
TimestampFromTime(secs) ==
    IF secs < ChronoMinSecs \/ secs > ChronoMaxSecs
    THEN [ok |-> FALSE, seconds |-> 0, nanos |-> 0]
    ELSE [ok |-> TRUE, seconds |-> secs, nanos |-> 0]

\* What a block-returning handler puts on the wire for block timestamp t:
\* timestamp_from_time(&Utc.timestamp(t as i64, 0)).
WireTimestamp(t) == TimestampFromTime(AsI64(t))

\* The timestamps inner-VM blocks carry: an ordinary one, the first that the
\* cast turns negative, and the largest u64.
Timestamps == {1, TimeSignBit, TimeModulus - 1}

\* ------------------------------------------------------------------- values
\* Block ids (32 bytes in the code); 0 stands for "no id".
Ids == {1, 2}

\* Status::to_u32
StatusToU32(s) ==
    CASE s = "Unknown" -> 0
      [] s = "Processing" -> 1
      [] s = "Rejected" -> 2
      [] s = "Accepted" -> 3

\* The blocks the inner VM may hand back (parent id, bytes, height, timestamp, status).
Blocks ==
    { [id |-> 1, parent |-> 0, bytes |-> <<9, 9>>, height |-> 1, timestamp |-> t, status |-> "Accepted"] :
        t \in Timestamps }
    \cup { [id |-> 2, parent |-> 1, bytes |-> <<7>>, height |-> 2, timestamp |-> 1, status |-> "Processing"] }
NoBlock == [id |-> 0, parent |-> 0, bytes |-> <<>>, height |-> 0, timestamp |-> 0, status |-> "Unknown"]

\* Errors of the inner VM: an io::Error with a kind and a message.
IoErrors ==
    { [kind |-> "NotFound", msg |-> "not found"],
      [kind |-> "Other", msg |-> "boom"] }

\* `e.to_string()` mapped by tonic::Status::unknown: always code Unknown.
StatusUnknown == "Unknown"

\* `?` on an io::Result in a handler returning tonic::Status: the conversion
\* From<std::io::Error> picks the code from the error's kind.
StatusFromIoError(e) ==
    CASE e.kind = "NotFound" -> "NotFound"
      [] OTHER -> "Unknown"

\* error_to_error_code(msg): the code of a known database error message.
ErrorToErrorCode(msg) ==
    CASE msg = "database closed" -> [ok |-> TRUE, code |-> 1]
      [] msg = "not found" -> [ok |-> TRUE, code |-> 2]
      [] OTHER -> [ok |-> FALSE, code |-> 0]

\* ------------------------------------------------------------ version strings
\* A version string: leading 'v' characters, then the text after them, which is
\* a semantic version (its numbers kept) or not.
SemVers == {<<1, 0, 0>>, <<1, 2, 0>>, <<1, 2, 3>>}
VersionStrings ==
    { [vs |-> 1, body |-> <<1, 0, 0>>],
      [vs |-> 2, body |-> <<1, 2, 3>>],
      [vs |-> 0, body |-> <<>>] }

\* db_server.version.trim_start_matches('v'): every leading 'v' is removed.
TrimStartMatchesV(s) == [vs |-> 0, body |-> s.body]

\* Version::parse: three numbers, nothing before them.
VersionParse(s) ==
    IF s.vs = 0 /\ s.body \in SemVers
    THEN [ok |-> TRUE, version |-> s.body]
    ELSE [ok |-> FALSE, version |-> <<>>]

\* ------------------------------------------------------- database manager
\* A seeded slip of the collection: the new database goes to the front.
PushFront(vec, vdb) == <<vdb>> \o vec

\* versioned_dbs.push(vdb)
Push(vec, vdb) == Append(vec, vdb)

\* VersionedDatabase::new(DatabaseClient::new(client_conn), version): the
\* client is named by the db_servers entry whose address was dialed.
VersionedDatabase(client, version) == [client |-> client, version |-> version]

\* DatabaseManager::new_from_databases: the manager keeps the databases it is
\* given, in their order.
NewFromDatabases(dbs) == dbs

\* The order of semantic versions: major, then minor, then patch.
VersionLess(a, b) ==
    \/ a[1] < b[1]
    \/ a[1] = b[1] /\ a[2] < b[2]
    \/ a[1] = b[1] /\ a[2] = b[2] /\ a[3] < b[3]

\* The manager's current database: the position of the highest version, the
\* latest of them when several entries have it; 0 for an empty manager.
Current(manager) ==
    IF manager = <<>> THEN 0
    ELSE CHOOSE c \in 1..Len(manager) :
            \A k \in 1..Len(manager) :
                /\ ~VersionLess(manager[c].version, manager[k].version)
                /\ manager[k].version = manager[c].version => k <= c

\* ---------------------------------------------------------------- requests
WriteKinds ==
    {"initialize", "create_handlers", "create_static_handlers",
     "build_block", "parse_block", "set_state"}
ReadKinds ==
    {"get_block", "set_preference", "health", "version", "connected",
     "block_accept", "block_reject", "disconnected", "app_request",
     "app_request_failed", "app_response", "app_gossip", "block_verify"}

\* The RPCs whose handlers return Status::unimplemented at once.
UnimplementedKinds ==
    {"get_ancestors", "batched_parse_block", "gather", "cross_chain_app_request",
     "cross_chain_app_request_failed", "cross_chain_app_response",
     "state_sync_enabled", "get_ongoing_sync_state_summary", "parse_state_summary",
     "get_state_summary", "get_last_state_summary", "state_summary_accept",
     "verify_height_index", "get_block_id_at_height"}

\* A seeded slip: shutdown is taken to ask for the lock like the other RPCs.
NoLockKindsUnimplementedOnly == UnimplementedKinds

\* A seeded slip: only shutdown is taken to run without the lock.
NoLockKindsShutdownOnly == {"shutdown"}

\* The RPCs whose handlers never touch self.vm.
NoLockKinds == {"shutdown"} \cup UnimplementedKinds

\* An address the adapter dials: one that answers, one that refuses the
\* connection, one that is no URI at all.
Addrs == {"good", "refused", "malformed"}

\* One entry of InitializeRequest.db_servers: a database server that can be
\* reached under either well-formed version, one whose version is no version,
\* one that refuses the connection, one whose address is no URI.
DbServers ==
    { [version |-> v, server_addr |-> "good"] : v \in VersionStrings }
    \cup { [version |-> [vs |-> 1, body |-> <<1, 0, 0>>], server_addr |-> a] : a \in Addrs }

RECURSIVE SeqsUpTo(_, _)
SeqsUpTo(S, n) ==
    IF n = 0 THEN {<<>>}
    ELSE LET shorter == SeqsUpTo(S, n - 1)
         IN shorter \cup { Append(q, x) : q \in {p \in shorter : Len(p) = n - 1}, x \in S }

\* ids::Id::from_slice(&slice) / ids::node::Id::from_slice(&slice): the call
\* sites take its value as the id itself, so it either yields an id or aborts
\* the handler; a slice of the right length yields the id of its bytes.
FromSlice(id, len) ==
    IF len = "exact"
    THEN {[ok |-> TRUE, id |-> id]}
    ELSE {[ok |-> TRUE, id |-> id], [ok |-> FALSE, id |-> 0]}

\* The app RPCs, whose handlers decode the node id before they ask for the lock.
AppKinds == {"app_request", "app_request_failed", "app_response", "app_gossip"}

\* AppRequestMsg.deadline: an optional {seconds, nanos}; here the absent one.
NoDeadline == [present |-> FALSE, seconds |-> 0, nanos |-> 0]

\* The deadlines a host may send: none, ordinary ones, one whose nanos are
\* negative, one whose seconds chrono cannot represent.
Deadlines ==
    {NoDeadline}
    \cup { [present |-> TRUE, seconds |-> s, nanos |-> n] :
             s \in {1, ChronoMaxSecs + 1}, n \in {0 - 1, 0, 5} }

\* Utc.timestamp(ts.seconds, ts.nanos as u32): chrono panics on seconds out of
\* its range and on nanoseconds of 2 * 10^9 or more, which is where the cast
\* puts every negative nanos.
UtcTimestamp(seconds, nanos) ==
    IF \/ seconds < ChronoMinSecs
       \/ seconds > ChronoMaxSecs
       \/ nanos < 0
       \/ nanos >= 2000000000
    THEN [ok |-> FALSE, secs |-> 0, nsecs |-> 0]
    ELSE [ok |-> TRUE, secs |-> seconds, nsecs |-> nanos]

\* The payloads of the app messages (request, response, msg bytes).
Payloads == {<<>>, <<7>>}

\* The fields of a request the handlers read; a field a kind does not have is
\* left at its default.  id_len is the length of the id slices it carries.
Request(kind, server_addr, db_servers, state, id) ==
    [kind |-> kind, server_addr |-> server_addr, db_servers |-> db_servers,
     state |-> state, id |-> id, id_len |-> "exact",
     request_id |-> 0, deadline |-> NoDeadline, payload |-> <<>>]

InitializeRequests ==
    { Request("initialize", a, dbs, 0, 0) :
        a \in Addrs, dbs \in SeqsUpTo(DbServers, MaxDbServers) }
SetStateRequests == { Request("set_state", "good", <<>>, u, 0) : u \in 0..MaxStateCode }
GetBlockRequests == { Request("get_block", "good", <<>>, 0, i) : i \in Ids }
SetPreferenceRequests == { Request("set_preference", "good", <<>>, 0, i) : i \in Ids }
EmptyRequests ==
    { Request(k, "good", <<>>, 0, 0) :
        k \in {"create_handlers", "create_static_handlers", "build_block",
               "parse_block", "health", "version"} }
UnimplementedRequests == { Request(k, "good", <<>>, 0, 0) : k \in UnimplementedKinds }
ShutdownRequest == Request("shutdown", "good", <<>>, 0, 0)
ConnectedRequests == { Request("connected", "good", <<>>, 0, i) : i \in Ids }
BlockDecideRequests ==
    { Request(k, "good", <<>>, 0, i) : k \in {"block_accept", "block_reject"}, i \in Ids }
DisconnectedRequests == { Request("disconnected", "good", <<>>, 0, i) : i \in Ids }
BlockVerifyRequests ==
    { [Request("block_verify", "good", <<>>, 0, 0) EXCEPT !.payload = b] : b \in Payloads }
\* AppRequestMsg {node_id, request_id, deadline, request}, AppRequestFailedMsg
\* {node_id, request_id}, AppResponseMsg {node_id, request_id, response},
\* AppGossipMsg {node_id, msg}.
AppRequests ==
    { [Request("app_request", "good", <<>>, 0, i)
          EXCEPT !.request_id = n, !.deadline = d, !.payload = b] :
        i \in Ids, n \in {1, 2}, d \in Deadlines, b \in Payloads }
    \cup { [Request("app_request_failed", "good", <<>>, 0, i) EXCEPT !.request_id = n] :
             i \in Ids, n \in {1, 2} }
    \cup { [Request("app_response", "good", <<>>, 0, i) EXCEPT !.request_id = n, !.payload = b] :
             i \in Ids, n \in {1, 2}, b \in Payloads }
    \cup { [Request("app_gossip", "good", <<>>, 0, i) EXCEPT !.payload = b] :
             i \in Ids, b \in Payloads }
Requests ==
    InitializeRequests \cup SetStateRequests \cup GetBlockRequests
    \cup SetPreferenceRequests \cup EmptyRequests \cup UnimplementedRequests
NoRequest == Request("none", "good", <<>>, 0, 0)

\* ------------------------------------------------------------------- state
VARIABLES
    pc,          \* where each request's handler stands
    req,         \* the request each handler was given
    local,       \* the handler's local variables
    resp,        \* what the handler returned to the host
    calls,       \* the inner-VM methods each handler has invoked, in order
    vmLock,      \* Server.vm: the RwLock around the inner VM
    lockQueue,   \* handlers waiting for the lock, first come first
    vmState,     \* the engine state the inner VM was last given
    tx_engine,   \* who owns the sender of the channel an initialize created
    rx_engine,   \* the messages queued in that channel
    enqueued,    \* every message the inner VM has sent on it, in order
    notified,    \* every notify the pump has issued to the host messenger
    pump,        \* the pump task spawned by that initialize
    pumpExit,    \* how that task ended: what it logged as an error and returned
    servers,     \* the HTTP sub-servers started by create_(static_)handlers
    addrs,       \* how many socket addresses new_socket_addr has handed out
    stop_ch,     \* Server.stop_ch: the broadcast channel of the stop signal
    blockStatus, \* the status of each block the inner VM holds
    http_rpcs,   \* Wallet.http_rpcs: the wallet's endpoints
    http_rpc_cursor, \* Wallet.http_rpc_cursor: the shared cursor and its mutex
    caller,      \* each concurrent caller of pick_http_rpc
    picks        \* what pick_http_rpc has returned, in the order of the returns

vars ==
    <<pc, req, local, resp, calls, vmLock, lockQueue, vmState, tx_engine,
      rx_engine, enqueued, notified, pump, pumpExit, servers, addrs, stop_ch,
      blockStatus,
      http_rpcs, http_rpc_cursor, caller, picks>>

rpcVars == <<pc, req, local, resp, calls, vmLock, lockQueue, vmState, servers, addrs>>
chanVars == <<tx_engine, rx_engine, enqueued, notified, pump, pumpExit>>
stopVars == <<stop_ch>>
blockVars == <<blockStatus>>
walletVars == <<http_rpcs, http_rpc_cursor, caller, picks>>
serverVars == <<rpcVars, chanVars, stopVars, blockVars>>

NoLocal ==
    [i |-> 0, versioned_dbs |-> <<>>, dialed |-> <<>>, db_manager |-> <<>>,
     state |-> "none", last_accepted |-> 0, block |-> NoBlock, handlers |-> <<>>,
     node_id |-> 0]

NoBody ==
    [id |-> 0, last_accepted_id |-> 0, parent_id |-> 0, bytes |-> <<>>, height |-> 0,
     status |-> 0, timestamp |-> [seconds |-> 0, nanos |-> 0], err |-> 0, handlers |-> <<>>]
NoResponse == [transport |-> "none", fail |-> "none", body |-> NoBody]

\* Server::new(vm, stop_ch): the VM unlocked, nothing started, nothing sent on
\* the stop channel.  `outside` tells whether the creator of the channel keeps
\* a receiver of it alive outside the adapter.
ServerNew(outside) ==
    /\ pc = [r \in Reqs |-> "idle"]
    /\ req = [r \in Reqs |-> NoRequest]
    /\ local = [r \in Reqs |-> NoLocal]
    /\ resp = [r \in Reqs |-> NoResponse]
    /\ calls = [r \in Reqs |-> <<>>]
    /\ vmLock = [writer |-> 0, readers |-> {}]
    /\ lockQueue = <<>>
    /\ vmState = "none"
    /\ tx_engine = [r \in Reqs |-> "none"]
    /\ rx_engine = [r \in Reqs |-> <<>>]
    /\ enqueued = [r \in Reqs |-> <<>>]
    /\ notified = [r \in Reqs |-> <<>>]
    /\ pump = [r \in Reqs |-> [st |-> "none", msg |-> 0]]
    /\ pumpExit = [r \in Reqs |-> [logged |-> "none", status |-> "none", notifies |-> 0]]
    /\ servers = <<>>
    /\ addrs = 0
    /\ stop_ch = [sent |-> 0, outside |-> outside]
    /\ blockStatus = [i \in Ids |-> "Processing"]

\* The callers of Wallet::pick_http_rpc, each through its own clone of the wallet.
Callers == 1..MaxCallers

\* A caller outside pick_http_rpc.
NoCaller == [pc |-> "idle", picked |-> 0, http_rpc |-> 0]

\* No wallet has been built.
NoWallet ==
    /\ http_rpcs = <<>>
    /\ http_rpc_cursor = [value |-> 0, holder |-> 0]
    /\ caller = [t \in Callers |-> NoCaller]
    /\ picks = <<>>

\* The adapter after construction, its creator holding a stop receiver.
Init == ServerNew(TRUE) /\ NoWallet

\* ------------------------------------------------------------------ the lock
\* A seeded slip of the lock mode: set_state takes the read lock.
LockModeSetStateRead(kind) ==
    IF kind \in WriteKinds \ {"set_state"} THEN "write" ELSE "read"

\* A seeded slip of the lock mode: every handler takes the read lock.
LockModeAlwaysRead(kind) == "read"

\* self.vm.write().await in the handlers of WriteKinds, self.vm.read().await
\* in the others that take the lock.
LockMode(kind) == IF kind \in WriteKinds THEN "write" ELSE "read"

Holds(r) == vmLock.writer = r \/ r \in vmLock.readers

\* A seeded slip of the lock: a reader is let in beside the writer.
CanAcquireIgnoringWriter(lock, mode) ==
    IF mode = "write"
    THEN lock.writer = 0 /\ lock.readers = {}
    ELSE TRUE

\* A seeded slip of the lock: a writer is let in beside readers.
CanAcquireIgnoringReaders(lock, mode) == lock.writer = 0

\* tokio::sync::RwLock: a writer needs the lock empty, a reader needs no writer.
CanAcquire(lock, mode) ==
    IF mode = "write"
    THEN lock.writer = 0 /\ lock.readers = {}
    ELSE lock.writer = 0

\* A seeded slip of the guard: a write guard is never dropped.
ReleasedReadersOnly(lock, r) == [lock EXCEPT !.readers = @ \ {r}]

\* Dropping the guard.
Released(lock, r) ==
    [writer |-> IF lock.writer = r THEN 0 ELSE lock.writer,
     readers |-> lock.readers \ {r}]

\* The first step a handler takes once it has the lock.
FirstLockedStep(kind) ==
    CASE kind = "initialize" -> "vm_initialize"
      [] kind = "set_state" -> "vm_set_state"
      [] OTHER -> "vm_call"

\* self.vm.write().await / self.vm.read().await: the handler joins the queue.
AwaitLock(r) ==
    /\ lockQueue' = Append(lockQueue, r)
    /\ pc' = [pc EXCEPT ![r] = "lock"]

\* The lock is granted to the handler at the head of the queue.
LockAcquire(r) ==
    /\ pc[r] = "lock"
    /\ lockQueue # <<>>
    /\ Head(lockQueue) = r
    /\ CanAcquire(vmLock, LockMode(req[r].kind))
    /\ lockQueue' = Tail(lockQueue)
    /\ vmLock' = IF LockMode(req[r].kind) = "write"
                 THEN [vmLock EXCEPT !.writer = r]
                 ELSE [vmLock EXCEPT !.readers = @ \cup {r}]
    /\ pc' = [pc EXCEPT ![r] = FirstLockedStep(req[r].kind)]
    /\ UNCHANGED <<req, local, resp, calls, vmState, servers, addrs>>
    /\ UNCHANGED <<chanVars, stopVars, blockVars, walletVars>>

\* The handler returns: its response goes to the host and its guard, if it
\* holds one, is dropped.
Return(r, transport, fail, body) ==
    /\ resp' = [resp EXCEPT ![r] = [transport |-> transport, fail |-> fail, body |-> body]]
    /\ pc' = [pc EXCEPT ![r] = "done"]
    /\ vmLock' = Released(vmLock, r)

\* A panic unwinds the handler: the guard is dropped, no response is produced.
Panic(r, fail) == Return(r, "Panic", fail, NoBody)

\* ------------------------------------------------------------- a request
\* The host issues request q.  initialize starts dialing, shutdown and the
\* unimplemented RPCs run without the lock, the app RPCs decode the node id;
\* every other handler asks for the lock first thing.
HostCall(r, q) ==
    /\ pc[r] = "idle"
    /\ \A p \in Reqs : p < r => pc[p] # "idle"
    /\ req' = [req EXCEPT ![r] = q]
    /\ CASE q.kind = "initialize" ->
              /\ pc' = [pc EXCEPT ![r] = "dial"]
              /\ UNCHANGED lockQueue
         [] q.kind \in NoLockKinds ->
              /\ pc' = [pc EXCEPT ![r] = "nolock"]
              /\ UNCHANGED lockQueue
         [] q.kind \in AppKinds ->
              /\ pc' = [pc EXCEPT ![r] = "decode"]
              /\ UNCHANGED lockQueue
         [] OTHER -> AwaitLock(r)
    /\ UNCHANGED <<local, resp, calls, vmLock, vmState, servers, addrs>>
    /\ UNCHANGED <<chanVars, stopVars, blockVars, walletVars>>

\* ---------------------------------------------------------------- initialize
\* Endpoint::from_shared(..).unwrap().connect().await.map_err(unknown)?, then
\* the clients and the Context with its ids built by from_slice.
InitializeDial(r) ==
    /\ pc[r] = "dial"
    /\ CASE req[r].server_addr = "malformed" ->
              /\ Panic(r, "host_addr")
              /\ UNCHANGED local
         [] req[r].server_addr = "refused" ->
              /\ Return(r, StatusUnknown, "host_dial", NoBody)
              /\ local' = [local EXCEPT ![r].dialed = Append(@, 0)]
         [] OTHER ->
              /\ local' = [local EXCEPT ![r].dialed = Append(@, 0)]
              /\ \E built \in FromSlice(req[r].id, req[r].id_len) :
                    IF built.ok
                    THEN /\ pc' = [pc EXCEPT ![r] = "db_servers"]
                         /\ UNCHANGED <<resp, vmLock>>
                    ELSE Panic(r, "from_slice")
    /\ UNCHANGED <<req, calls, lockQueue, vmState, servers, addrs>>
    /\ UNCHANGED <<chanVars, stopVars, blockVars, walletVars>>

\* One turn of `for db_server in req.db_servers.iter()`: strip the leading
\* 'v's, parse the version, build the endpoint, connect, push the database.
InitializeDbServer(r) ==
    /\ pc[r] = "db_servers"
    /\ local[r].i < Len(req[r].db_servers)
    /\ LET i == local[r].i + 1
           db_server == req[r].db_servers[i]
           version == VersionParse(TrimStartMatchesV(db_server.version))
       IN CASE ~version.ok ->
                 /\ Return(r, StatusUnknown, "db_version", NoBody)
                 /\ local' = [local EXCEPT ![r].i = i]
            [] version.ok /\ db_server.server_addr = "malformed" ->
                 /\ Return(r, StatusUnknown, "db_addr", NoBody)
                 /\ local' = [local EXCEPT ![r].i = i]
            [] version.ok /\ db_server.server_addr = "refused" ->
                 /\ Return(r, StatusUnknown, "db_dial", NoBody)
                 /\ local' = [local EXCEPT ![r].i = i, ![r].dialed = Append(@, i)]
            [] OTHER ->
                 /\ local' = [local EXCEPT ![r].i = i,
                                           ![r].dialed = Append(@, i),
                                           ![r].versioned_dbs =
                                               Push(@, VersionedDatabase(i, version.version))]
                 /\ UNCHANGED <<pc, resp, vmLock>>
    /\ UNCHANGED <<req, calls, lockQueue, vmState, servers, addrs>>
    /\ UNCHANGED <<chanVars, stopVars, blockVars, walletVars>>

\* After the loop: the database manager, mpsc::channel(100), tokio::spawn of
\* the pump, then self.vm.write().await.
InitializeSpawn(r) ==
    /\ pc[r] = "db_servers"
    /\ local[r].i = Len(req[r].db_servers)
    /\ local' = [local EXCEPT ![r].db_manager = NewFromDatabases(local[r].versioned_dbs)]
    /\ tx_engine' = [tx_engine EXCEPT ![r] = "handler"]
    /\ pump' = [pump EXCEPT ![r] = [st |-> "recv", msg |-> 0]]
    /\ AwaitLock(r)
    /\ UNCHANGED <<req, resp, calls, vmLock, vmState, servers, addrs>>
    /\ UNCHANGED <<rx_engine, enqueued, notified, pumpExit>>
    /\ UNCHANGED <<stopVars, blockVars, walletVars>>

\* inner_vm.initialize(ctx, db_manager, .., tx_engine, ..).await: the sender
\* moves into the inner VM, which succeeds or fails.
InitializeVm(r) ==
    /\ pc[r] = "vm_initialize"
    /\ calls' = [calls EXCEPT ![r] = Append(@, <<"initialize", tx_engine[r]>>)]
    /\ tx_engine' = [tx_engine EXCEPT ![r] = "vm"]
    /\ \/ /\ pc' = [pc EXCEPT ![r] = "last_accepted"]
          /\ UNCHANGED <<resp, vmLock>>
       \/ \E e \in IoErrors : Return(r, StatusUnknown, "vm_initialize", NoBody)
    /\ UNCHANGED <<req, local, lockQueue, vmState, servers, addrs>>
    /\ UNCHANGED <<rx_engine, enqueued, notified, pump, pumpExit>>
    /\ UNCHANGED <<stopVars, blockVars, walletVars>>

\* inner_vm.last_accepted().await? : the error converts itself into a status.
InitializeLastAccepted(r) ==
    /\ pc[r] = "last_accepted"
    /\ req[r].kind = "initialize"
    /\ calls' = [calls EXCEPT ![r] = Append(@, <<"last_accepted", 0>>)]
    /\ \/ \E id \in Ids :
            /\ local' = [local EXCEPT ![r].last_accepted = id]
            /\ pc' = [pc EXCEPT ![r] = "get_block"]
            /\ UNCHANGED <<resp, vmLock>>
       \/ \E e \in IoErrors :
            /\ Return(r, StatusFromIoError(e), "last_accepted", NoBody)
            /\ UNCHANGED local
    /\ UNCHANGED <<req, lockQueue, vmState, servers, addrs>>
    /\ UNCHANGED <<chanVars, stopVars, blockVars, walletVars>>

\* The body of InitializeResponse and of SetStateResponse.
LastAcceptedBody(last_accepted, block) ==
    [NoBody EXCEPT !.last_accepted_id = last_accepted,
                   !.parent_id = block.parent,
                   !.bytes = block.bytes,
                   !.height = block.height,
                   !.timestamp = [seconds |-> WireTimestamp(block.timestamp).seconds,
                                  nanos |-> WireTimestamp(block.timestamp).nanos]]

\* inner_vm.get_block(last_accepted).await.map_err(unknown)?, then the response.
InitializeGetBlock(r) ==
    /\ pc[r] = "get_block"
    /\ req[r].kind = "initialize"
    /\ calls' = [calls EXCEPT ![r] = Append(@, <<"get_block", local[r].last_accepted>>)]
    /\ \/ \E block \in Blocks :
            /\ local' = [local EXCEPT ![r].block = block]
            /\ IF WireTimestamp(block.timestamp).ok
               THEN Return(r, "Ok", "none", LastAcceptedBody(local[r].last_accepted, block))
               ELSE Panic(r, "timestamp")
       \/ \E e \in IoErrors :
            /\ Return(r, StatusUnknown, "get_block", NoBody)
            /\ UNCHANGED local
    /\ UNCHANGED <<req, lockQueue, vmState, servers, addrs>>
    /\ UNCHANGED <<chanVars, stopVars, blockVars, walletVars>>

\* ----------------------------------------------------------------- set_state
\* State::try_from(req.state).map_err(unknown)?, then
\* inner_vm.set_state(state).await.map_err(unknown)?
SetStateVm(r) ==
    /\ pc[r] = "vm_set_state"
    /\ LET state == TryFrom(req[r].state)
       IN IF ~state.ok
          THEN /\ Return(r, StatusUnknown, "try_from", NoBody)
               /\ UNCHANGED <<local, calls, vmState>>
          ELSE /\ local' = [local EXCEPT ![r].state = state.state]
               /\ calls' = [calls EXCEPT ![r] = Append(@, <<"set_state", StateAsU32(state.state)>>)]
               /\ \/ /\ vmState' = state.state
                     /\ pc' = [pc EXCEPT ![r] = "last_accepted"]
                     /\ UNCHANGED <<resp, vmLock>>
                  \/ \E e \in IoErrors :
                       /\ Return(r, StatusUnknown, "set_state", NoBody)
                       /\ UNCHANGED vmState
    /\ UNCHANGED <<req, lockQueue, servers, addrs>>
    /\ UNCHANGED <<chanVars, stopVars, blockVars, walletVars>>

\* inner_vm.last_accepted().await.map_err(unknown)?
SetStateLastAccepted(r) ==
    /\ pc[r] = "last_accepted"
    /\ req[r].kind = "set_state"
    /\ calls' = [calls EXCEPT ![r] = Append(@, <<"last_accepted", 0>>)]
    /\ \/ \E id \in Ids :
            /\ local' = [local EXCEPT ![r].last_accepted = id]
            /\ pc' = [pc EXCEPT ![r] = "get_block"]
            /\ UNCHANGED <<resp, vmLock>>
       \/ \E e \in IoErrors :
            /\ Return(r, StatusUnknown, "last_accepted", NoBody)
            /\ UNCHANGED local
    /\ UNCHANGED <<req, lockQueue, vmState, servers, addrs>>
    /\ UNCHANGED <<chanVars, stopVars, blockVars, walletVars>>

\* inner_vm.get_block(last_accepted_id).await.map_err(unknown)?, then the response.
SetStateGetBlock(r) ==
    /\ pc[r] = "get_block"
    /\ req[r].kind = "set_state"
    /\ calls' = [calls EXCEPT ![r] = Append(@, <<"get_block", local[r].last_accepted>>)]
    /\ \/ \E block \in Blocks :
            /\ local' = [local EXCEPT ![r].block = block]
            /\ IF WireTimestamp(block.timestamp).ok
               THEN Return(r, "Ok", "none", LastAcceptedBody(local[r].last_accepted, block))
               ELSE Panic(r, "timestamp")
       \/ \E e \in IoErrors :
            /\ Return(r, StatusUnknown, "get_block", NoBody)
            /\ UNCHANGED local
    /\ UNCHANGED <<req, lockQueue, vmState, servers, addrs>>
    /\ UNCHANGED <<chanVars, stopVars, blockVars, walletVars>>

\* ----------------------------------------------------------------- get_block
\* The body of GetBlockResponse for a block the inner VM found.
GetBlockBody(block) ==
    [NoBody EXCEPT !.parent_id = block.parent,
                   !.bytes = block.bytes,
                   !.status = StatusToU32(block.status),
                   !.height = block.height,
                   !.timestamp = [seconds |-> WireTimestamp(block.timestamp).seconds,
                                  nanos |-> WireTimestamp(block.timestamp).nanos],
                   !.err = 0]

\* The body of GetBlockResponse when the inner VM failed: everything empty,
\* the timestamp Utc.timestamp(0, 0), err the mapped code.
GetBlockErrBody(code) ==
    [NoBody EXCEPT !.timestamp = [seconds |-> WireTimestamp(0).seconds,
                                  nanos |-> WireTimestamp(0).nanos],
                   !.err = code]

\* match inner_vm.get_block(Id::from_slice(&req.id)).await { Ok(block) => .., Err(e) => .. }
GetBlockVm(r) ==
    /\ pc[r] = "vm_call"
    /\ req[r].kind = "get_block"
    /\ \E built \in FromSlice(req[r].id, req[r].id_len) :
         IF ~built.ok
         THEN /\ Panic(r, "from_slice")
              /\ UNCHANGED <<calls, local>>
         ELSE /\ calls' = [calls EXCEPT ![r] = Append(@, <<"get_block", built.id>>)]
              /\ \/ \E block \in Blocks :
                      /\ local' = [local EXCEPT ![r].block = block]
                      /\ IF WireTimestamp(block.timestamp).ok
                         THEN Return(r, "Ok", "none", GetBlockBody(block))
                         ELSE Panic(r, "timestamp")
                 \/ \E e \in IoErrors :
                      /\ UNCHANGED local
                      /\ IF ErrorToErrorCode(e.msg).ok
                         THEN Return(r, "Ok", e.msg, GetBlockErrBody(ErrorToErrorCode(e.msg).code))
                         ELSE Panic(r, "error_to_error_code")
    /\ UNCHANGED <<req, lockQueue, vmState, servers, addrs>>
    /\ UNCHANGED <<chanVars, stopVars, blockVars, walletVars>>

\* ---------------------------------------------------- connected, disconnected
\* node::Id::from_slice(&req.node_id), then
\* inner_vm.connected(&node_id).await.map_err(unknown)?; disconnected is the
\* same code over inner_vm.disconnected.
ConnectedVm(r) ==
    /\ pc[r] = "vm_call"
    /\ req[r].kind \in {"connected", "disconnected"}
    /\ \E built \in FromSlice(req[r].id, req[r].id_len) :
         IF ~built.ok
         THEN /\ Panic(r, "from_slice")
              /\ UNCHANGED calls
         ELSE /\ calls' = [calls EXCEPT ![r] = Append(@, <<req[r].kind, built.id>>)]
              /\ \/ Return(r, "Ok", "none", NoBody)
                 \/ \E e \in IoErrors : Return(r, StatusUnknown, req[r].kind, NoBody)
    /\ UNCHANGED <<req, local, lockQueue, vmState, servers, addrs>>
    /\ UNCHANGED <<chanVars, stopVars, blockVars, walletVars>>

\* ------------------- app_request, app_request_failed, app_response, app_gossip
\* let node_id = ids::node::Id::from_slice(&req.node_id);
\* let inner_vm = self.vm.read().await;
AppDecode(r) ==
    /\ pc[r] = "decode"
    /\ \E built \in FromSlice(req[r].id, req[r].id_len) :
         IF ~built.ok
         THEN /\ Panic(r, "from_slice")
              /\ UNCHANGED <<local, lockQueue>>
         ELSE /\ local' = [local EXCEPT ![r].node_id = built.id]
              /\ AwaitLock(r)
              /\ UNCHANGED <<resp, vmLock>>
    /\ UNCHANGED <<req, calls, vmState, servers, addrs>>
    /\ UNCHANGED <<chanVars, stopVars, blockVars, walletVars>>

\* The arguments an app method of the inner VM is called with; one the method
\* does not take is left at its default.
AppArgs(node_id, request_id, deadline, payload) ==
    [node_id |-> node_id, request_id |-> request_id, deadline |-> deadline,
     payload |-> payload]

\* The inner VM's app method is called with args and returns Ok or Err.
AppCall(r, method, args) ==
    /\ calls' = [calls EXCEPT ![r] = Append(@, <<method, args>>)]
    /\ \/ Return(r, "Ok", "none", NoBody)
       \/ \E e \in IoErrors : Return(r, StatusUnknown, method, NoBody)

\* req.deadline.as_ref().expect("timestamp"), Utc.timestamp(ts.seconds,
\* ts.nanos as u32), then inner_vm.app_request(&node_id, req.request_id,
\* deadline, &req.request).await.map_err(unknown)?
AppRequestVm(r) ==
    /\ pc[r] = "vm_call"
    /\ req[r].kind = "app_request"
    /\ LET ts == req[r].deadline
           deadline == UtcTimestamp(ts.seconds, ts.nanos)
       IN IF ~ts.present
          THEN /\ Panic(r, "expect_timestamp")
               /\ UNCHANGED calls
          ELSE IF ~deadline.ok
          THEN /\ Panic(r, "deadline")
               /\ UNCHANGED calls
          ELSE AppCall(r, "app_request",
                       AppArgs(local[r].node_id, req[r].request_id,
                               [secs |-> deadline.secs, nsecs |-> deadline.nsecs],
                               req[r].payload))
    /\ UNCHANGED <<req, local, lockQueue, vmState, servers, addrs>>
    /\ UNCHANGED <<chanVars, stopVars, blockVars, walletVars>>

\* inner_vm.app_request_failed(&node_id, req.request_id), inner_vm.app_response(
\* &node_id, req.request_id, &req.response) and inner_vm.app_gossip(&node_id,
\* &req.msg), each .await.map_err(unknown)?
AppEventVm(r) ==
    /\ pc[r] = "vm_call"
    /\ req[r].kind \in AppKinds \ {"app_request"}
    /\ AppCall(r, req[r].kind,
               AppArgs(local[r].node_id, req[r].request_id, [secs |-> 0, nsecs |-> 0],
                       req[r].payload))
    /\ UNCHANGED <<req, local, lockQueue, vmState, servers, addrs>>
    /\ UNCHANGED <<chanVars, stopVars, blockVars, walletVars>>

\* --------------------------------------------------------------- block_verify
\* A seeded slip of the `?`: a failed parse goes on to verify.
BlockVerifyParseUnchecked(r) ==
    /\ pc[r] = "vm_call"
    /\ req[r].kind = "block_verify"
    /\ calls' = [calls EXCEPT ![r] = Append(@, <<"parse_block", req[r].payload>>)]
    /\ \/ \E block \in Blocks : local' = [local EXCEPT ![r].block = block]
       \/ \E e \in IoErrors : UNCHANGED local
    /\ pc' = [pc EXCEPT ![r] = "verify"]
    /\ UNCHANGED <<req, resp, vmLock, lockQueue, vmState, servers, addrs>>
    /\ UNCHANGED <<chanVars, stopVars, blockVars, walletVars>>

\* inner_vm.parse_block(&req.bytes).await.map_err(unknown)?
BlockVerifyParse(r) ==
    /\ pc[r] = "vm_call"
    /\ req[r].kind = "block_verify"
    /\ calls' = [calls EXCEPT ![r] = Append(@, <<"parse_block", req[r].payload>>)]
    /\ \/ \E block \in Blocks :
            /\ local' = [local EXCEPT ![r].block = block]
            /\ pc' = [pc EXCEPT ![r] = "verify"]
            /\ UNCHANGED <<resp, vmLock>>
       \/ \E e \in IoErrors :
            /\ Return(r, StatusUnknown, "parse_block", NoBody)
            /\ UNCHANGED local
    /\ UNCHANGED <<req, lockQueue, vmState, servers, addrs>>
    /\ UNCHANGED <<chanVars, stopVars, blockVars, walletVars>>

\* block.verify().await.map_err(unknown)?, then the response with the block's
\* timestamp.
BlockVerify(r) ==
    /\ pc[r] = "verify"
    /\ calls' = [calls EXCEPT ![r] = Append(@, <<"verify", local[r].block.id>>)]
    /\ \/ IF WireTimestamp(local[r].block.timestamp).ok
          THEN Return(r, "Ok", "none",
                      [NoBody EXCEPT !.timestamp =
                          [seconds |-> WireTimestamp(local[r].block.timestamp).seconds,
                           nanos |-> WireTimestamp(local[r].block.timestamp).nanos]])
          ELSE Panic(r, "timestamp")
       \/ \E e \in IoErrors : Return(r, StatusUnknown, "verify", NoBody)
    /\ UNCHANGED <<req, local, lockQueue, vmState, servers, addrs>>
    /\ UNCHANGED <<chanVars, stopVars, blockVars, walletVars>>

\* ------------------------------------------------- build_block, parse_block
\* The body of BuildBlockResponse.
BuildBlockBody(block) ==
    [NoBody EXCEPT !.id = block.id,
                   !.parent_id = block.parent,
                   !.bytes = block.bytes,
                   !.height = block.height,
                   !.timestamp = [seconds |-> WireTimestamp(block.timestamp).seconds,
                                  nanos |-> WireTimestamp(block.timestamp).nanos]]

\* The body of ParseBlockResponse.
ParseBlockBody(block) ==
    [NoBody EXCEPT !.id = block.id,
                   !.parent_id = block.parent,
                   !.status = StatusToU32(block.status),
                   !.height = block.height,
                   !.timestamp = [seconds |-> WireTimestamp(block.timestamp).seconds,
                                  nanos |-> WireTimestamp(block.timestamp).nanos]]

\* The response body the handler of the method builds from the block.
BlockBody(method, block) ==
    IF method = "build_block" THEN BuildBlockBody(block) ELSE ParseBlockBody(block)

\* A handler that makes one inner-VM call returning a block and serialises it.
BlockCall(r, method) ==
    /\ pc[r] = "vm_call"
    /\ req[r].kind = method
    /\ calls' = [calls EXCEPT ![r] = Append(@, <<method, 0>>)]
    /\ \/ \E block \in Blocks :
            /\ local' = [local EXCEPT ![r].block = block]
            /\ IF WireTimestamp(block.timestamp).ok
               THEN Return(r, "Ok", "none", BlockBody(method, block))
               ELSE Panic(r, "timestamp")
       \/ \E e \in IoErrors :
            /\ Return(r, StatusUnknown, method, NoBody)
            /\ UNCHANGED local
    /\ UNCHANGED <<req, lockQueue, vmState, servers, addrs>>
    /\ UNCHANGED <<chanVars, stopVars, blockVars, walletVars>>

\* inner_vm.build_block().await.map_err(unknown)?
BuildBlockVm(r) == BlockCall(r, "build_block")

\* inner_vm.parse_block(req.bytes).await.map_err(unknown)?
ParseBlockVm(r) == BlockCall(r, "parse_block")

\* ------------------------------------- set_preference, health, version
\* A handler that forwards one call and returns its value or Unknown.
ForwardCall(r, method, arg) ==
    /\ pc[r] = "vm_call"
    /\ req[r].kind = method
    /\ calls' = [calls EXCEPT ![r] = Append(@, <<method, arg>>)]
    /\ \/ Return(r, "Ok", "none", NoBody)
       \/ \E e \in IoErrors : Return(r, StatusUnknown, method, NoBody)
    /\ UNCHANGED <<req, local, lockQueue, vmState, servers, addrs>>
    /\ UNCHANGED <<chanVars, stopVars, blockVars, walletVars>>

SetPreferenceVm(r) == ForwardCall(r, "set_preference", req[r].id)
HealthVm(r) == ForwardCall(r, "health", 0)
VersionVm(r) == ForwardCall(r, "version", 0)

\* --------------------------------- create_handlers, create_static_handlers
\* A handler descriptor of the inner VM: a lock option and a router or none.
\* The map's keys (the prefixes) are distinct; its iteration order is any.
Prefixes == 1..MaxHandlers
Descriptors == [prefix : Prefixes, lock_option : {0, 1}, router : BOOLEAN]
HandlerMaps ==
    { hs \in SeqsUpTo({d \in Descriptors : d.lock_option = d.prefix % 2}, MaxHandlers) :
        \A i, j \in 1..Len(hs) : i # j => hs[i].prefix # hs[j].prefix }

\* `for (prefix, handler) in handlers`: a socket address for every descriptor,
\* `continue` for one without a router, else subscribe to the stop channel and
\* serve; `?` on a failed serve leaves the loop at once.  `failing` is the
\* prefix whose serve fails (0: none does).
\* A seeded slip of the check: no descriptor is skipped.
SkippedNever(h) == FALSE

\* handler.handler.clone().is_none(): the descriptor has no router.
Skipped(h) == ~h.router

RECURSIVE ServeHandlers(_, _, _, _)
ServeHandlers(hs, owner, addr, failing) ==
    IF hs = <<>>
    THEN [ok |-> TRUE, handlers |-> <<>>, started |-> <<>>, addrs |-> addr]
    ELSE LET h == Head(hs)
             server_addr == addr + 1
         IN IF Skipped(h)
            THEN ServeHandlers(Tail(hs), owner, server_addr, failing)
            ELSE IF h.prefix = failing
            THEN [ok |-> FALSE, handlers |-> <<>>, started |-> <<>>, addrs |-> server_addr]
            ELSE LET rest == ServeHandlers(Tail(hs), owner, server_addr, failing)
                 IN [ok |-> rest.ok,
                     handlers |->
                        IF rest.ok
                        THEN <<[prefix |-> h.prefix, lock_options |-> h.lock_option,
                                server_addr |-> server_addr]>> \o rest.handlers
                        ELSE <<>>,
                     started |->
                        <<[owner |-> owner, prefix |-> h.prefix,
                           server_addr |-> server_addr, st |-> "serving",
                           subscribed_at |-> stop_ch.sent, signal |-> FALSE]>>
                        \o rest.started,
                     addrs |-> rest.addrs]

\* A seeded slip of the failure path: a failed serve takes down the
\* sub-servers the call had started.
CreateHandlersCallRollingBack(r, method) ==
    /\ pc[r] = "vm_call"
    /\ req[r].kind = method
    /\ calls' = [calls EXCEPT ![r] = Append(@, <<method, 0>>)]
    /\ \/ \E hs \in HandlerMaps, failing \in {0} \cup Prefixes :
            LET out == ServeHandlers(hs, r, addrs, failing)
            IN /\ failing # 0 => ~out.ok
               /\ local' = [local EXCEPT ![r].handlers = hs]
               /\ servers' = IF out.ok THEN servers \o out.started ELSE servers
               /\ addrs' = out.addrs
               /\ IF out.ok
                  THEN Return(r, "Ok", "none", [NoBody EXCEPT !.handlers = out.handlers])
                  ELSE Return(r, StatusUnknown, "serve", NoBody)
       \/ \E e \in IoErrors :
            /\ Return(r, StatusUnknown, method, NoBody)
            /\ UNCHANGED <<local, servers, addrs>>
    /\ UNCHANGED <<req, lockQueue, vmState>>
    /\ UNCHANGED <<chanVars, stopVars, blockVars, walletVars>>

\* inner_vm.create_handlers().await.map_err(unknown)?, then the loop and the
\* response; create_static_handlers is the same code over the static handlers.
CreateHandlersCall(r, method) ==
    /\ pc[r] = "vm_call"
    /\ req[r].kind = method
    /\ calls' = [calls EXCEPT ![r] = Append(@, <<method, 0>>)]
    /\ \/ \E hs \in HandlerMaps, failing \in {0} \cup Prefixes :
            LET out == ServeHandlers(hs, r, addrs, failing)
            IN /\ failing # 0 => ~out.ok
               /\ local' = [local EXCEPT ![r].handlers = hs]
               /\ servers' = servers \o out.started
               /\ addrs' = out.addrs
               /\ IF out.ok
                  THEN Return(r, "Ok", "none", [NoBody EXCEPT !.handlers = out.handlers])
                  ELSE Return(r, StatusUnknown, "serve", NoBody)
       \/ \E e \in IoErrors :
            /\ Return(r, StatusUnknown, method, NoBody)
            /\ UNCHANGED <<local, servers, addrs>>
    /\ UNCHANGED <<req, lockQueue, vmState>>
    /\ UNCHANGED <<chanVars, stopVars, blockVars, walletVars>>

CreateHandlersVm(r) == CreateHandlersCall(r, "create_handlers")
CreateStaticHandlersVm(r) == CreateHandlersCall(r, "create_static_handlers")

\* ------------------------------------------------ block_accept, block_reject
\* A seeded slip: block_accept rejects and block_reject accepts.
DecidedSwapped(kind) == IF kind = "block_accept" THEN "Rejected" ELSE "Accepted"

\* The status a block has once accept or reject has returned Ok.
Decided(kind) == IF kind = "block_accept" THEN "Accepted" ELSE "Rejected"

\* let id = ids::Id::from_slice(&req.id), then
\* inner_vm.get_block(id).await.map_err(unknown)? in block_accept and
\* block_reject: the block as the inner VM holds it, or Unknown.
BlockDecideGet(r) ==
    /\ pc[r] = "vm_call"
    /\ req[r].kind \in {"block_accept", "block_reject"}
    /\ \E built \in FromSlice(req[r].id, req[r].id_len) :
         IF ~built.ok
         THEN /\ Panic(r, "from_slice")
              /\ UNCHANGED calls
         ELSE /\ calls' = [calls EXCEPT ![r] = Append(@, <<"get_block", built.id>>)]
              /\ \/ /\ pc' = [pc EXCEPT ![r] = "decide"]
                    /\ UNCHANGED <<resp, vmLock>>
                 \/ \E e \in IoErrors : Return(r, StatusUnknown, "get_block", NoBody)
    /\ UNCHANGED <<req, local, lockQueue, vmState, servers, addrs>>
    /\ UNCHANGED <<chanVars, stopVars, blockVars, walletVars>>

\* block.accept().await / block.reject().await, mapped to Unknown on Err.
\* The handler calls it whatever the block's status is; whether the call
\* succeeds is the block's own decision, which no code of the adapter or of
\* the Decidable trait restricts.
BlockDecide(r) ==
    /\ pc[r] = "decide"
    /\ calls' = [calls EXCEPT ![r] = Append(@, <<Decided(req[r].kind), req[r].id>>)]
    /\ \/ /\ blockStatus' = [blockStatus EXCEPT ![req[r].id] = Decided(req[r].kind)]
          /\ Return(r, "Ok", "none", NoBody)
       \/ /\ \E e \in IoErrors : Return(r, StatusUnknown, "decide", NoBody)
          /\ UNCHANGED blockStatus
    /\ UNCHANGED <<req, local, lockQueue, vmState, servers, addrs>>
    /\ UNCHANGED <<chanVars, stopVars, walletVars>>

\* ------------------------------------------------------------ the stop channel
\* A seeded slip of the channel: a send always finds a receiver.
StopReceiversAtLeastOne(ch, subs) == 1

\* The receivers of the stop channel that are alive: the one its creator may
\* hold and one for every sub-server that is still serving.
StopReceivers(ch, subs) ==
    (IF ch.outside THEN 1 ELSE 0)
    + Cardinality({ i \in 1..Len(subs) : subs[i].st = "serving" })

\* A seeded slip of the broadcast: only the oldest sub-server gets the value.
SignalledFirstOnly(subs) ==
    [i \in 1..Len(subs) |->
        IF i = 1 /\ subs[i].st = "serving" THEN [subs[i] EXCEPT !.signal = TRUE] ELSE subs[i]]

\* broadcast::Sender::send: every live receiver gets the value.
Signalled(subs) ==
    [i \in 1..Len(subs) |->
        IF subs[i].st = "serving" THEN [subs[i] EXCEPT !.signal = TRUE] ELSE subs[i]]

\* shutdown: self.stop_ch.send(()).map_err(unknown)?  The send fails when no
\* receiver is alive.  Neither the lock nor the inner VM is touched.
Shutdown(r) ==
    /\ pc[r] = "nolock"
    /\ req[r].kind = "shutdown"
    /\ IF StopReceivers(stop_ch, servers) = 0
       THEN /\ Return(r, StatusUnknown, "stop_send", NoBody)
            /\ UNCHANGED <<stop_ch, servers>>
       ELSE /\ stop_ch' = [stop_ch EXCEPT !.sent = @ + 1]
            /\ servers' = Signalled(servers)
            /\ Return(r, "Ok", "none", NoBody)
    /\ UNCHANGED <<req, local, calls, lockQueue, vmState, addrs>>
    /\ UNCHANGED <<chanVars, blockVars, walletVars>>

\* A sub-server whose receiver holds the stop value shuts down and drops its
\* receiver.
ServerStop(i) ==
    /\ i \in 1..Len(servers)
    /\ servers[i].st = "serving"
    /\ servers[i].signal
    /\ servers' = [servers EXCEPT ![i].st = "stopped"]
    /\ UNCHANGED <<pc, req, local, resp, calls, vmLock, lockQueue, vmState, addrs>>
    /\ UNCHANGED <<chanVars, stopVars, blockVars, walletVars>>

\* ------------------------------------------------------ unimplemented RPCs
\* Err(tonic::Status::unimplemented(..)) as the whole handler.
Unimplemented(r) ==
    /\ pc[r] = "nolock"
    /\ req[r].kind \in UnimplementedKinds
    /\ Return(r, "Unimplemented", req[r].kind, NoBody)
    /\ UNCHANGED <<req, local, calls, lockQueue, vmState, servers, addrs>>
    /\ UNCHANGED <<chanVars, stopVars, blockVars, walletVars>>

\* ------------------------------------------------- the notification channel
\* The codes of the engine messages (`msg as u32`).
Msgs == {1, 2}

\* A seeded slip of the channel: it is taken to be unbounded.
HasRoomAlways(queue) == TRUE

\* mpsc::channel(100): the queue takes a message while it holds fewer than 100.
HasRoom(queue) == Len(queue) < ChannelCapacity

\* tx_engine.send(msg).await inside the inner VM: the message joins the queue
\* while the receiver lives and the channel has room; a full channel makes the
\* sender wait.
InnerSend(r, msg) ==
    /\ tx_engine[r] = "vm"
    /\ pump[r].st \in {"recv", "notify"}
    /\ HasRoom(rx_engine[r])
    /\ rx_engine' = [rx_engine EXCEPT ![r] = Append(@, msg)]
    /\ enqueued' = [enqueued EXCEPT ![r] = Append(@, msg)]
    /\ UNCHANGED <<tx_engine, notified, pump, pumpExit>>
    /\ UNCHANGED <<rpcVars, stopVars, blockVars, walletVars>>

\* The inner VM drops the sender it was given (with every clone of it).
InnerDropSender(r) ==
    /\ tx_engine[r] = "vm"
    /\ tx_engine' = [tx_engine EXCEPT ![r] = "dropped"]
    /\ UNCHANGED <<rx_engine, enqueued, notified, pump, pumpExit>>
    /\ UNCHANGED <<rpcVars, stopVars, blockVars, walletVars>>

\* ------------------------------------------------------------------ the pump
\* A seeded slip of the receive: the newest message is taken, not the oldest.
NextMessageNewest(queue) == queue[Len(queue)]

\* mpsc::Receiver::recv: the oldest queued message.
NextMessage(queue) == Head(queue)

\* rx_engine.recv().await gives Some(msg).
PumpRecv(r) ==
    /\ pump[r].st = "recv"
    /\ rx_engine[r] # <<>>
    /\ pump' = [pump EXCEPT ![r] = [st |-> "notify", msg |-> NextMessage(rx_engine[r])]]
    /\ rx_engine' = [rx_engine EXCEPT ![r] = Tail(@)]
    /\ UNCHANGED <<tx_engine, enqueued, notified, pumpExit>>
    /\ UNCHANGED <<rpcVars, stopVars, blockVars, walletVars>>

\* Err(e) => return tonic::Status::unknown(e.to_string()): the task's value
\* is an Unknown status; nothing is logged at error level.
NotifyFailedExit(notifies) == [logged |-> "none", status |-> "Unknown", notifies |-> notifies]

\* None => { log::error!("engine receiver closed unexpectedly");
\*           return tonic::Status::unknown("engine receiver closed unexpectedly") }
ClosedExit(notifies) == [logged |-> "error", status |-> "Unknown", notifies |-> notifies]

\* A seeded slip of the error arm: the pump goes on after a failed notify.
AfterNotifyRetrying(ok) == [st |-> "recv", msg |-> 0]

\* match message.notify(..).await { Ok(_) => continue, Err(e) => return .. }
AfterNotify(ok) == IF ok THEN [st |-> "recv", msg |-> 0] ELSE [st |-> "failed", msg |-> 0]

\* message.notify(NotifyRequest { message: msg as u32 }).await returns.
PumpNotify(r) ==
    /\ pump[r].st = "notify"
    /\ \E ok \in BOOLEAN :
         /\ notified' = [notified EXCEPT ![r] = Append(@, [msg |-> pump[r].msg, ok |-> ok])]
         /\ pump' = [pump EXCEPT ![r] = AfterNotify(ok)]
         /\ rx_engine' = [rx_engine EXCEPT ![r] = IF AfterNotify(ok).st = "failed" THEN <<>> ELSE @]
         /\ pumpExit' = [pumpExit EXCEPT ![r] =
                            IF AfterNotify(ok).st = "failed"
                            THEN NotifyFailedExit(Len(notified[r]) + 1)
                            ELSE @]
    /\ UNCHANGED <<tx_engine, enqueued>>
    /\ UNCHANGED <<rpcVars, stopVars, blockVars, walletVars>>

\* rx_engine.recv().await gives None: every sender is gone and nothing is queued.
PumpClose(r) ==
    /\ pump[r].st = "recv"
    /\ rx_engine[r] = <<>>
    /\ tx_engine[r] = "dropped"
    /\ pump' = [pump EXCEPT ![r] = [st |-> "closed", msg |-> 0]]
    /\ pumpExit' = [pumpExit EXCEPT ![r] = ClosedExit(Len(notified[r]))]
    /\ UNCHANGED <<tx_engine, rx_engine, enqueued, notified>>
    /\ UNCHANGED <<rpcVars, stopVars, blockVars, walletVars>>

\* ------------------------------------------------------------ specifications
\* The adapter under concurrent requests of every kind.  The inner VM keeps
\* the senders it is given and stays silent; SpecPump has the channel traffic.
Next ==
    \/ \E r \in Reqs, q \in Requests : HostCall(r, q)
    \/ \E r \in Reqs : LockAcquire(r)
    \/ \E r \in Reqs : InitializeDial(r)
    \/ \E r \in Reqs : InitializeDbServer(r)
    \/ \E r \in Reqs : InitializeSpawn(r)
    \/ \E r \in Reqs : InitializeVm(r)
    \/ \E r \in Reqs : InitializeLastAccepted(r)
    \/ \E r \in Reqs : InitializeGetBlock(r)
    \/ \E r \in Reqs : SetStateVm(r)
    \/ \E r \in Reqs : SetStateLastAccepted(r)
    \/ \E r \in Reqs : SetStateGetBlock(r)
    \/ \E r \in Reqs : GetBlockVm(r)
    \/ \E r \in Reqs : BuildBlockVm(r)
    \/ \E r \in Reqs : ParseBlockVm(r)
    \/ \E r \in Reqs : SetPreferenceVm(r)
    \/ \E r \in Reqs : HealthVm(r)
    \/ \E r \in Reqs : VersionVm(r)
    \/ \E r \in Reqs : CreateHandlersVm(r)
    \/ \E r \in Reqs : CreateStaticHandlersVm(r)
    \/ \E r \in Reqs : Unimplemented(r)

Spec == Init /\ [][Next]_vars

\* One initialize and the traffic of the channel it creates.
NextPump ==
    \/ \E q \in InitializeRequests : HostCall(1, q)
    \/ LockAcquire(1)
    \/ InitializeDial(1)
    \/ InitializeDbServer(1)
    \/ InitializeSpawn(1)
    \/ InitializeVm(1)
    \/ InitializeLastAccepted(1)
    \/ InitializeGetBlock(1)
    \/ \E msg \in Msgs : Len(enqueued[1]) < MaxSent /\ InnerSend(1, msg)
    \/ InnerDropSender(1)
    \/ PumpRecv(1)
    \/ PumpNotify(1)
    \/ PumpClose(1)

SpecPump == Init /\ [][NextPump]_vars

\* The adapter with or without a stop receiver held by its creator.
InitStop == \E outside \in BOOLEAN : ServerNew(outside) /\ NoWallet

\* Sub-servers and shutdown: the requests that start sub-servers, and shutdown.
StopRequests ==
    { Request(k, "good", <<>>, 0, 0) : k \in {"create_handlers", "create_static_handlers"} }
    \cup {ShutdownRequest}

\* One step of the handler of request r in the shutdown runs.
StopHandlerStep(r) ==
    \/ LockAcquire(r)
    \/ CreateHandlersVm(r)
    \/ CreateStaticHandlersVm(r)
    \/ Shutdown(r)

\* The sub-servers one run can start.
MaxServers == MaxReq * MaxHandlers

NextStop ==
    \/ \E r \in Reqs, q \in StopRequests : HostCall(r, q)
    \/ \E r \in Reqs : StopHandlerStep(r)
    \/ \E i \in 1..MaxServers : ServerStop(i)

\* The runtime keeps running every task that can take a step: the handlers
\* and the sub-servers.  Nothing obliges the host to call.
SpecStop ==
    /\ InitStop
    /\ [][NextStop]_vars
    /\ \A r \in Reqs : WF_vars(StopHandlerStep(r))
    /\ \A i \in 1..MaxServers : WF_vars(ServerStop(i))

\* The pump and shutdown: one initialize, the traffic of its channel, and
\* shutdown requests.
PumpStopRequests ==
    { q \in InitializeRequests : q.server_addr = "good" /\ Len(q.db_servers) <= 1 }
    \cup {ShutdownRequest}

\* The host issues q; it initializes the adapter at most once.
HostCallOnce(r, q) ==
    /\ q.kind = "initialize" => \A p \in Reqs : req[p].kind # "initialize"
    /\ HostCall(r, q)

\* One step of the handler of request r in the pump-and-shutdown runs.
PumpStopHandlerStep(r) ==
    \/ LockAcquire(r)
    \/ InitializeDial(r)
    \/ InitializeDbServer(r)
    \/ InitializeSpawn(r)
    \/ InitializeVm(r)
    \/ InitializeLastAccepted(r)
    \/ InitializeGetBlock(r)
    \/ Shutdown(r)

\* One step of the pump task spawned by request r.
PumpStep(r) == PumpRecv(r) \/ PumpNotify(r) \/ PumpClose(r)

NextPumpStop ==
    \/ \E r \in Reqs, q \in PumpStopRequests : HostCallOnce(r, q)
    \/ \E r \in Reqs : PumpStopHandlerStep(r)
    \/ \E r \in Reqs : PumpStep(r)
    \/ \E r \in Reqs, msg \in Msgs : Len(enqueued[r]) < MaxSent /\ InnerSend(r, msg)
    \/ \E r \in Reqs : InnerDropSender(r)

\* The runtime keeps running the handlers and the pump.  Nothing obliges the
\* host to call, or the inner VM to send or to drop its sender.
SpecPumpStop ==
    /\ InitStop
    /\ [][NextPumpStop]_vars
    /\ \A r \in Reqs : WF_vars(PumpStopHandlerStep(r))
    /\ \A r \in Reqs : WF_vars(PumpStep(r))

\* The block lifecycle: concurrent block_accept and block_reject requests.
NextBlocks ==
    \/ \E r \in Reqs, q \in BlockDecideRequests : HostCall(r, q)
    \/ \E r \in Reqs : LockAcquire(r)
    \/ \E r \in Reqs : BlockDecideGet(r)
    \/ \E r \in Reqs : BlockDecide(r)

SpecBlocks == Init /\ [][NextBlocks]_vars

\* The database manager: one initialize whose db_servers are all reachable and
\* carry the versions v1.0.0, v1.2.3 and v1.2.0.
ManagerRequests ==
    { Request("initialize", "good", dbs, 0, 0) :
        dbs \in SeqsUpTo({ [version |-> [vs |-> 1, body |-> v], server_addr |-> "good"] :
                             v \in SemVers }, MaxDbList) }

NextManager ==
    \/ \E q \in ManagerRequests : HostCall(1, q)
    \/ LockAcquire(1)
    \/ InitializeDial(1)
    \/ InitializeDbServer(1)
    \/ InitializeSpawn(1)
    \/ InitializeVm(1)
    \/ InitializeLastAccepted(1)
    \/ InitializeGetBlock(1)

SpecManager == Init /\ [][NextManager]_vars

\* Id slices of every length: initialize, get_block and connected requests
\* whose ids are too short, of the right length, or too long.
IdRequests ==
    { [q EXCEPT !.id_len = len] :
        q \in { i \in InitializeRequests : i.server_addr = "good" /\ Len(i.db_servers) <= 1 }
              \cup GetBlockRequests \cup ConnectedRequests,
        len \in {"exact", "short", "long"} }

NextIds ==
    \/ \E r \in Reqs, q \in IdRequests : HostCallOnce(r, q)
    \/ \E r \in Reqs : LockAcquire(r)
    \/ \E r \in Reqs : InitializeDial(r)
    \/ \E r \in Reqs : InitializeDbServer(r)
    \/ \E r \in Reqs : InitializeSpawn(r)
    \/ \E r \in Reqs : InitializeVm(r)
    \/ \E r \in Reqs : InitializeLastAccepted(r)
    \/ \E r \in Reqs : InitializeGetBlock(r)
    \/ \E r \in Reqs : GetBlockVm(r)
    \/ \E r \in Reqs : ConnectedVm(r)

SpecIds == Init /\ [][NextIds]_vars

\* Every RPC of the adapter, two at a time, each with one well-formed request.
LockRequests ==
    { q \in InitializeRequests : q.server_addr = "good" /\ Len(q.db_servers) <= 1 }
    \cup { q \in SetStateRequests : q.state = StateAsU32("NormalOp") }
    \cup { q \in GetBlockRequests \cup SetPreferenceRequests \cup ConnectedRequests
                 \cup DisconnectedRequests \cup BlockDecideRequests : q.id = 1 }
    \cup { q \in AppRequests :
              /\ q.id = 1 /\ q.request_id # 2
              /\ q.kind # "app_request_failed" => q.payload = <<7>>
              /\ q.kind = "app_request" =>
                    q.deadline = [present |-> TRUE, seconds |-> 1, nanos |-> 5] }
    \cup { q \in BlockVerifyRequests : q.payload = <<7>> }
    \cup EmptyRequests \cup UnimplementedRequests \cup {ShutdownRequest}

NextLocks ==
    \/ \E r \in Reqs, q \in LockRequests : HostCall(r, q)
    \/ \E r \in Reqs : LockAcquire(r)
    \/ \E r \in Reqs : InitializeDial(r)
    \/ \E r \in Reqs : InitializeDbServer(r)
    \/ \E r \in Reqs : InitializeSpawn(r)
    \/ \E r \in Reqs : InitializeVm(r)
    \/ \E r \in Reqs : InitializeLastAccepted(r)
    \/ \E r \in Reqs : InitializeGetBlock(r)
    \/ \E r \in Reqs : SetStateVm(r)
    \/ \E r \in Reqs : SetStateLastAccepted(r)
    \/ \E r \in Reqs : SetStateGetBlock(r)
    \/ \E r \in Reqs : GetBlockVm(r)
    \/ \E r \in Reqs : BuildBlockVm(r)
    \/ \E r \in Reqs : ParseBlockVm(r)
    \/ \E r \in Reqs : SetPreferenceVm(r)
    \/ \E r \in Reqs : HealthVm(r)
    \/ \E r \in Reqs : VersionVm(r)
    \/ \E r \in Reqs : CreateHandlersVm(r)
    \/ \E r \in Reqs : CreateStaticHandlersVm(r)
    \/ \E r \in Reqs : ConnectedVm(r)
    \/ \E r \in Reqs : AppDecode(r)
    \/ \E r \in Reqs : AppRequestVm(r)
    \/ \E r \in Reqs : AppEventVm(r)
    \/ \E r \in Reqs : BlockVerifyParse(r)
    \/ \E r \in Reqs : BlockVerify(r)
    \/ \E r \in Reqs : BlockDecideGet(r)
    \/ \E r \in Reqs : BlockDecide(r)
    \/ \E r \in Reqs : Shutdown(r)
    \/ \E r \in Reqs : Unimplemented(r)

SpecLocks == Init /\ [][NextLocks]_vars

\* One step of the handler of request r, whichever RPC it serves.
HandlerStep(r) ==
    \/ LockAcquire(r)
    \/ InitializeDial(r)
    \/ InitializeDbServer(r)
    \/ InitializeSpawn(r)
    \/ InitializeVm(r)
    \/ InitializeLastAccepted(r)
    \/ InitializeGetBlock(r)
    \/ SetStateVm(r)
    \/ SetStateLastAccepted(r)
    \/ SetStateGetBlock(r)
    \/ GetBlockVm(r)
    \/ BuildBlockVm(r)
    \/ ParseBlockVm(r)
    \/ SetPreferenceVm(r)
    \/ HealthVm(r)
    \/ VersionVm(r)
    \/ CreateHandlersVm(r)
    \/ CreateStaticHandlersVm(r)
    \/ ConnectedVm(r)
    \/ AppDecode(r)
    \/ AppRequestVm(r)
    \/ AppEventVm(r)
    \/ BlockVerifyParse(r)
    \/ BlockVerify(r)
    \/ BlockDecideGet(r)
    \/ BlockDecide(r)
    \/ Shutdown(r)
    \/ Unimplemented(r)

NextFair ==
    \/ \E r \in Reqs, q \in LockRequests : HostCall(r, q)
    \/ \E r \in Reqs : HandlerStep(r)

\* Every RPC of the adapter with the runtime polling every handler that can
\* take a step: every await of a handler other than the lock's resolves, and
\* the lock is granted in the order of the requests for it.  Nothing obliges
\* the host to call.
SpecFair ==
    /\ Init
    /\ [][NextFair]_vars
    /\ \A r \in Reqs : WF_vars(HandlerStep(r))

\* The peer and app events: concurrent connected, disconnected and app
\* requests with every deadline a host may send.
NextEvents ==
    \/ \E r \in Reqs, q \in ConnectedRequests \cup DisconnectedRequests \cup AppRequests :
          HostCall(r, q)
    \/ \E r \in Reqs : LockAcquire(r)
    \/ \E r \in Reqs : ConnectedVm(r)
    \/ \E r \in Reqs : AppDecode(r)
    \/ \E r \in Reqs : AppRequestVm(r)
    \/ \E r \in Reqs : AppEventVm(r)

SpecEvents == Init /\ [][NextEvents]_vars

\* The channel under load: one initialize whose inner VM sends up to MaxBurst
\* messages of one kind while the pump forwards them.
NextChannel ==
    \/ HostCall(1, Request("initialize", "good", <<>>, 0, 0))
    \/ LockAcquire(1)
    \/ InitializeDial(1)
    \/ InitializeSpawn(1)
    \/ InitializeVm(1)
    \/ Len(enqueued[1]) < MaxBurst /\ InnerSend(1, 1)
    \/ InnerDropSender(1)
    \/ PumpRecv(1)
    \/ PumpNotify(1)
    \/ PumpClose(1)

SpecChannel == Init /\ [][NextChannel]_vars

\* ----------------------------------------------------------------- the wallet
\* Builder::build: the endpoints it was given and a fresh cursor at 0, shared
\* by every clone of the wallet.
WalletBuild(n) ==
    /\ http_rpcs = [i \in 1..n |-> [url |-> i]]
    /\ http_rpc_cursor = [value |-> 0, holder |-> 0]
    /\ caller = [t \in Callers |-> NoCaller]
    /\ picks = <<>>

\* A seeded slip of the mutex: it is handed out while it is held.
MutexFreeAlways(m) == TRUE

\* std::sync::Mutex: it can be locked when nobody holds it.
MutexFree(m) == m.holder = 0

\* (picked + 1) % self.http_rpcs.len()
NextCursor(picked, len) == (picked + 1) % len

\* let mut idx = self.http_rpc_cursor.lock().unwrap();
WalletLock(t) ==
    /\ caller[t].pc = "idle"
    /\ Len(picks) + Cardinality({ u \in Callers : caller[u].pc # "idle" }) < MaxPicks
    /\ MutexFree(http_rpc_cursor)
    /\ http_rpc_cursor' = [http_rpc_cursor EXCEPT !.holder = t]
    /\ caller' = [caller EXCEPT ![t].pc = "locked"]
    /\ UNCHANGED <<http_rpcs, picks>>
    /\ UNCHANGED serverVars

\* let picked = *idx; let http_rpc = self.http_rpcs[picked].clone();
WalletPick(t) ==
    /\ caller[t].pc = "locked"
    /\ caller' = [caller EXCEPT ![t] =
                    [pc |-> "picked", picked |-> http_rpc_cursor.value,
                     http_rpc |-> http_rpcs[http_rpc_cursor.value + 1].url]]
    /\ UNCHANGED <<http_rpcs, http_rpc_cursor, picks>>
    /\ UNCHANGED serverVars

\* *idx = (picked + 1) % self.http_rpcs.len();
WalletAdvance(t) ==
    /\ caller[t].pc = "picked"
    /\ http_rpc_cursor' =
          [http_rpc_cursor EXCEPT !.value = NextCursor(caller[t].picked, Len(http_rpcs))]
    /\ caller' = [caller EXCEPT ![t].pc = "advanced"]
    /\ UNCHANGED <<http_rpcs, picks>>
    /\ UNCHANGED serverVars

\* (picked, http_rpc): the guard is dropped and the pair returned.
WalletReturn(t) ==
    /\ caller[t].pc = "advanced"
    /\ http_rpc_cursor' =
          [http_rpc_cursor EXCEPT !.holder = IF @ = t THEN 0 ELSE @]
    /\ picks' = Append(picks, [caller |-> t, idx |-> caller[t].picked,
                                http_rpc |-> caller[t].http_rpc])
    /\ caller' = [caller EXCEPT ![t] = NoCaller]
    /\ UNCHANGED http_rpcs
    /\ UNCHANGED serverVars

\* A wallet built over one to MaxEndpoints endpoints.
InitWallet == ServerNew(TRUE) /\ \E n \in 1..MaxEndpoints : WalletBuild(n)

NextWallet ==
    \/ \E t \in Callers : WalletLock(t)
    \/ \E t \in Callers : WalletPick(t)
    \/ \E t \in Callers : WalletAdvance(t)
    \/ \E t \in Callers : WalletReturn(t)

SpecWallet == InitWallet /\ [][NextWallet]_vars

\* =================================================================== claims
\* The handlers that are between their lock acquisition and their return:
\* they hold a guard and are making their inner-VM calls.
InVm(r) == pc[r] \in {"vm_initialize", "vm_set_state", "vm_call", "last_accepted", "get_block"}
WriteHolders == { r \in Reqs : InVm(r) /\ req[r].kind \in WriteKinds }
ReadHolders == { r \in Reqs : InVm(r) /\ req[r].kind \in ReadKinds }

\* The messages of a notify log.
RECURSIVE NotifiedMsgs(_)
NotifiedMsgs(log) ==
    IF log = <<>> THEN <<>> ELSE <<Head(log).msg>> \o NotifiedMsgs(Tail(log))

\* C1 (notification order, under SpecPump): the notify calls the host
\* messenger has seen carry exactly the first messages the inner VM enqueued,
\* in the enqueue order, each once, and every one before the last of them
\* succeeded; while the pump runs, the enqueued messages are those notified,
\* then the one in flight, then the queued ones, so that none was skipped,
\* repeated or merged.
C1_NotificationOrder ==
    \A r \in Reqs :
        LET seen == NotifiedMsgs(notified[r])
            inFlight == IF pump[r].st = "notify" THEN <<pump[r].msg>> ELSE <<>>
        IN /\ Len(seen) <= Len(enqueued[r])
           /\ seen = SubSeq(enqueued[r], 1, Len(seen))
           /\ \A i \in 1..Len(notified[r]) : i < Len(notified[r]) => notified[r][i].ok
           /\ pump[r].st \in {"recv", "notify"} =>
                 enqueued[r] = seen \o inFlight \o rx_engine[r]

\* C1's case: two different messages were enqueued and both were notified.
C1_Witness ==
    /\ Len(notified[1]) = 2
    /\ notified[1][1].msg # notified[1][2].msg
    /\ notified[1][1].ok /\ notified[1][2].ok

\* C2 (lock exclusion, under Spec): at most one handler holds the write lock
\* and then none holds the read lock; the handlers making inner-VM calls are
\* one write-lock RPC alone or read-lock RPCs only, and each of them holds the
\* lock in its own mode.
C2_LockExclusion ==
    /\ vmLock.writer # 0 => vmLock.readers = {}
    /\ Cardinality(WriteHolders) <= 1
    /\ WriteHolders # {} => ReadHolders = {}
    /\ \A r \in WriteHolders : vmLock.writer = r
    /\ \A r \in ReadHolders : r \in vmLock.readers

\* C2's case: a write-lock RPC is inside while another write-lock RPC waits.
C2_Witness ==
    \E r1, r2 \in Reqs :
        /\ r1 \in WriteHolders
        /\ req[r2].kind \in WriteKinds
        /\ pc[r2] = "lock"

\* C4 (set_state with an unknown code, under Spec): a set_state request whose
\* code is not one of 0..3 never reaches the inner VM, and once it has
\* returned its status is Unknown and it holds no lock.
C4_SetStateOutOfRange ==
    \A r \in Reqs :
        (req[r].kind = "set_state" /\ req[r].state \notin {0, 1, 2, 3}) =>
            /\ calls[r] = <<>>
            /\ pc[r] = "done" =>
                  /\ resp[r].transport = "Unknown"
                  /\ ~Holds(r)

\* C4's case: such a request has gone through the handler.
C4_Witness ==
    \E r \in Reqs :
        /\ req[r].kind = "set_state"
        /\ req[r].state = MaxStateCode
        /\ pc[r] = "done"
        /\ resp[r].fail = "try_from"

\* C6 (engine-state round trip, under Spec): a set_state request the handler
\* has converted carries a code u in 0..3, the variant it was converted to is
\* the one numbered u (0 Initializing, 1 StateSyncing, 2 Bootstrapping,
\* 3 NormalOp) and its u32 value is u; a request with any other code ends at
\* the conversion.
C6_StateRoundTrip ==
    \A r \in Reqs :
        (req[r].kind = "set_state" /\ pc[r] \in {"last_accepted", "get_block", "done"}) =>
            LET u == req[r].state
            IN IF u \in {0, 1, 2, 3}
               THEN /\ local[r].state = <<"Initializing", "StateSyncing", "Bootstrapping", "NormalOp">>[u + 1]
                    /\ StateAsU32(local[r].state) = u
                    /\ resp[r].fail # "try_from"
               ELSE /\ local[r].state = "none"
                    /\ resp[r].fail = "try_from"

\* C6's case: one request was converted to Bootstrapping and another was refused.
C6_Witness ==
    \E r1, r2 \in Reqs :
        /\ req[r1].kind = "set_state" /\ local[r1].state = "Bootstrapping"
        /\ req[r2].kind = "set_state" /\ resp[r2].fail = "try_from"

\* C10 (no retry, under SpecPump): a failed notify is the last notify the pump
\* ever issued: the pump has ended, it holds no message and the queue it owned
\* is gone, so neither the failed message nor a later one is notified.
C10_NoRetry ==
    \A r \in Reqs :
        \A i \in 1..Len(notified[r]) :
            ~notified[r][i].ok =>
                /\ i = Len(notified[r])
                /\ pump[r] = [st |-> "failed", msg |-> 0]
                /\ rx_engine[r] = <<>>

\* C10's case: the first notify failed while a second message had been enqueued.
C10_Witness ==
    /\ Len(enqueued[1]) = 2
    /\ Len(notified[1]) = 1
    /\ ~notified[1][1].ok

\* --------------------------------------------------- claims the code breaks
\* C3 as claimed (under Spec): get_block answers transport Ok whenever the
\* inner VM fails with an error whose message has a code, with an empty body,
\* status 0, height 0, timestamp {0,0} and err # 0; and whenever the inner VM
\* finds the block, with err = 0 and the block's parent, bytes, status, height
\* and timestamp {seconds = t, nanos = 0}.
C3_Claim ==
    \A r \in Reqs :
        (req[r].kind = "get_block" /\ pc[r] = "done") =>
            /\ (local[r].block = NoBlock /\ ErrorToErrorCode(resp[r].fail).ok) =>
                  /\ resp[r].transport = "Ok"
                  /\ resp[r].body.parent_id = 0
                  /\ resp[r].body.bytes = <<>>
                  /\ resp[r].body.status = 0
                  /\ resp[r].body.height = 0
                  /\ resp[r].body.timestamp = [seconds |-> 0, nanos |-> 0]
                  /\ resp[r].body.err # 0
            /\ local[r].block # NoBlock =>
                  /\ resp[r].transport = "Ok"
                  /\ resp[r].body.err = 0
                  /\ resp[r].body.parent_id = local[r].block.parent
                  /\ resp[r].body.bytes = local[r].block.bytes
                  /\ resp[r].body.status = StatusToU32(local[r].block.status)
                  /\ resp[r].body.height = local[r].block.height
                  /\ resp[r].body.timestamp = [seconds |-> local[r].block.timestamp, nanos |-> 0]

\* C5 as claimed (under Spec): once the inner set_state has succeeded the
\* handler calls last_accepted and then get_block of the id it got, a response
\* carries that id with the block's parent id, height, bytes and timestamp, and
\* a failure of either call returns Unknown with the inner state already changed.
C5_Claim ==
    \A r \in Reqs :
        (req[r].kind = "set_state" /\ pc[r] = "done" /\ Len(calls[r]) >= 1) =>
            \/ resp[r].fail = "set_state"
            \/ /\ resp[r].fail \in {"last_accepted", "get_block"}
               /\ resp[r].transport = "Unknown"
               /\ calls[r][2] = <<"last_accepted", 0>>
               /\ resp[r].fail = "get_block" => calls[r][3] = <<"get_block", local[r].last_accepted>>
            \/ /\ resp[r].transport = "Ok"
               /\ calls[r] = << <<"set_state", req[r].state>>, <<"last_accepted", 0>>,
                                <<"get_block", local[r].last_accepted>> >>
               /\ resp[r].body.last_accepted_id = local[r].last_accepted
               /\ resp[r].body.parent_id = local[r].block.parent
               /\ resp[r].body.height = local[r].block.height
               /\ resp[r].body.bytes = local[r].block.bytes
               /\ resp[r].body.timestamp = [seconds |-> local[r].block.timestamp, nanos |-> 0]

\* C7 as claimed (under Spec): an initialize that failed at any of its steps
\* has returned status Unknown and holds no lock.
C7_Claim ==
    \A r \in Reqs :
        (req[r].kind = "initialize" /\ pc[r] = "done" /\ resp[r].fail \in {"host_addr", "host_dial", "db_version", "db_addr", "db_dial",
                              "vm_initialize", "last_accepted", "get_block"}) =>
            /\ resp[r].transport = "Unknown"
            /\ ~Holds(r)

\* The entries of a db_servers list whose version the handler cannot parse.
BadVersions(dbs) ==
    { i \in 1..Len(dbs) : ~VersionParse(TrimStartMatchesV(dbs[i].version)).ok }

\* C8 as claimed (under Spec): an initialize whose db_servers list has an
\* entry with an unparsable version returns Unknown; it creates no channel and
\* no pump, never calls the inner VM, never asks for the lock, and dials
\* neither the failing entry nor a later one.
C8_Claim ==
    \A r \in Reqs :
        (req[r].kind = "initialize" /\ BadVersions(req[r].db_servers) # {}) =>
            /\ pump[r].st = "none"
            /\ tx_engine[r] = "none"
            /\ calls[r] = <<>>
            /\ pc[r] # "lock" /\ ~Holds(r)
            /\ \A k \in 1..Len(local[r].dialed), i \in BadVersions(req[r].db_servers) :
                  local[r].dialed[k] < i
            /\ pc[r] = "done" => resp[r].transport = "Unknown"

\* C9 as claimed (under Spec): an initialize that answered Ok called the inner
\* initialize once, with the sender of the channel whose pump was already
\* running, then last_accepted, then get_block of that id, and its response
\* carries that id and the block's parent id, bytes, height and timestamp.
C9_Claim ==
    \A r \in Reqs :
        (req[r].kind = "initialize" /\ pc[r] = "done" /\ resp[r].transport = "Ok") =>
            /\ calls[r] = << <<"initialize", "handler">>, <<"last_accepted", 0>>,
                             <<"get_block", local[r].last_accepted>> >>
            /\ pump[r].st # "none"
            /\ resp[r].body.last_accepted_id = local[r].last_accepted
            /\ resp[r].body.parent_id = local[r].block.parent
            /\ resp[r].body.bytes = local[r].block.bytes
            /\ resp[r].body.height = local[r].block.height
            /\ resp[r].body.timestamp = [seconds |-> local[r].block.timestamp, nanos |-> 0]

\* C11 as claimed (under SpecPumpStop): once a notify of the pump has failed,
\* the stop signal is eventually sent on the adapter's stop channel, without
\* the host having to ask for a shutdown.
C11_Claim ==
    (\E r \in Reqs : pump[r].st = "failed") ~>
        (stop_ch.sent > 0 \/ \E r \in Reqs : req[r].kind = "shutdown")

\* The shutdown requests that have returned Ok.
ShutdownsDone ==
    { r \in Reqs : req[r].kind = "shutdown" /\ pc[r] = "done" /\ resp[r].transport = "Ok" }

\* C12 as claimed (under SpecPumpStop): once a shutdown RPC has completed,
\* eventually no sender of a notification channel is left and no pump task
\* is running.
C12_Claim ==
    (ShutdownsDone # {}) ~>
        (\A r \in Reqs : tx_engine[r] \notin {"handler", "vm"}
                          /\ pump[r].st \notin {"recv", "notify"})

\* C13 (single broadcast, under SpecStop): the values sent on the stop channel
\* are exactly one for each shutdown RPC that returned Ok; every sub-server
\* that subscribed before a send has been handed the signal; and a sub-server
\* that has been handed the signal eventually terminates.
C13_SingleBroadcast ==
    /\ [](stop_ch.sent = Cardinality(ShutdownsDone))
    /\ [](\A i \in 1..Len(servers) :
            servers[i].subscribed_at < stop_ch.sent => servers[i].signal)
    /\ \A i \in 1..MaxServers :
            (i <= Len(servers) /\ servers[i].signal) ~>
                (i <= Len(servers) /\ servers[i].st = "stopped")

\* C13 happens: one call has started two sub-servers, one shutdown has
\* returned Ok with one value sent, and both sub-servers have stopped.
C13_Witness ==
    /\ stop_ch.sent = 1
    /\ ShutdownsDone # {}
    /\ Len(servers) = 2
    /\ \A i \in 1..2 : servers[i].subscribed_at = 0 /\ servers[i].st = "stopped"

\* The descriptors of a handler map that have a router, in iteration order.
WithRouter(hs) == SelectSeq(hs, LAMBDA h : h.router)

\* C14 (create_handlers, under Spec): a create_handlers that returned Ok
\* answers with one entry for each descriptor that has a router, in the
\* iteration order, carrying the descriptor's prefix and lock option and a
\* socket address of its own, and with no entry for a descriptor without a
\* router; a create_handlers that failed did so in the inner VM's call or
\* in the serve of a descriptor that has a router.
C14_CreateHandlers ==
    \A r \in Reqs :
        (req[r].kind = "create_handlers" /\ pc[r] = "done") =>
            LET routed == WithRouter(local[r].handlers)
                out == resp[r].body.handlers
            IN \/ /\ resp[r].transport = "Ok"
                  /\ Len(out) = Len(routed)
                  /\ \A k \in 1..Len(out) :
                        /\ out[k].prefix = routed[k].prefix
                        /\ out[k].lock_options = routed[k].lock_option
                  /\ \A k, l \in 1..Len(out) : k # l => out[k].server_addr # out[l].server_addr
               \/ /\ resp[r].transport = StatusUnknown
                  /\ resp[r].fail = "create_handlers"
                  /\ local[r].handlers = <<>>
               \/ /\ resp[r].transport = StatusUnknown
                  /\ resp[r].fail = "serve"
                  /\ routed # <<>>

\* C14 happens: the inner VM returned a descriptor without a router and one
\* with a router, and create_handlers answered Ok with the one entry.
C14_Witness ==
    \E r \in Reqs :
        /\ req[r].kind = "create_handlers" /\ pc[r] = "done"
        /\ resp[r].transport = "Ok"
        /\ Len(local[r].handlers) = 2
        /\ ~local[r].handlers[1].router
        /\ local[r].handlers[2].router
        /\ Len(resp[r].body.handlers) = 1

\* C15 (unimplemented RPCs, under Spec): a request of one of the fourteen
\* unimplemented RPCs never joins the lock queue, and the one step its handler
\* takes, in whatever state the adapter is, answers Unimplemented and changes
\* nothing else: not the lock, not the calls made to the inner VM, not the
\* channel, the sub-servers or another request.
C15_Unimplemented ==
    [][\A r \in Reqs :
        /\ (pc[r] = "idle" /\ req'[r].kind \in UnimplementedKinds) =>
              (pc'[r] = "nolock" /\ UNCHANGED <<lockQueue, vmLock>>)
        /\ (req[r].kind \in UnimplementedKinds /\ pc[r] # "idle" /\ pc'[r] # pc[r]) =>
              /\ pc[r] = "nolock"
              /\ pc'[r] = "done"
              /\ resp'[r].transport = "Unimplemented"
              /\ resp'[r].body = NoBody
              /\ calls'[r] = <<>>
              /\ \A p \in Reqs \ {r} : pc'[p] = pc[p] /\ resp'[p] = resp[p]
              /\ UNCHANGED <<req, local, calls, vmLock, lockQueue, vmState, servers, addrs>>
              /\ UNCHANGED <<chanVars, stopVars, blockVars>>]_vars

\* C15 happens: an unimplemented RPC has returned Unimplemented while another
\* request holds the write lock.
C15_Witness ==
    \E r, p \in Reqs :
        /\ req[r].kind \in UnimplementedKinds
        /\ pc[r] = "done"
        /\ resp[r].transport = "Unimplemented"
        /\ vmLock.writer = p

\* C16 as claimed (under SpecBlocks): a block's status changes only from
\* Processing, to Accepted through accept and to Rejected through reject, and
\* a block_accept or block_reject for a block that is already Accepted or
\* Rejected fails.
C16_Claim ==
    [][\A r \in Reqs :
        (pc[r] = "decide" /\ pc'[r] = "done") =>
            LET id == req[r].id
            IN /\ blockStatus[id] \in {"Accepted", "Rejected"} =>
                    (resp'[r].transport # "Ok" /\ blockStatus'[id] = blockStatus[id])
               /\ blockStatus'[id] # blockStatus[id] =>
                    (blockStatus[id] = "Processing" /\ blockStatus'[id] = Decided(req[r].kind))]_vars

\* C17 as claimed (under Spec): after every initialize that returned Ok the
\* database manager handed to the inner VM holds at least one database.
C17_Claim ==
    \A r \in Reqs :
        (req[r].kind = "initialize" /\ pc[r] = "done" /\ resp[r].transport = "Ok") =>
            local[r].db_manager # <<>>

\* The versions of a db_servers list as the handler parses them.
ParsedVersions(dbs) ==
    [k \in 1..Len(dbs) |-> VersionParse(TrimStartMatchesV(dbs[k].version)).version]

C19_Claim ==
    \A r \in Reqs :
        req[r].id_len # "exact" =>
            /\ calls[r] = <<>>
            /\ pc[r] = "done" => resp[r].transport = StatusUnknown

\* C20 (round robin, under SpecWallet): the cursor is always an index of the
\* endpoint list; the k-th call to return, whichever caller made it, returns
\* the index (k-1) mod n together with the endpoint at that index, so the
\* calls walk the list cyclically from 0 and no index comes twice within n
\* consecutive calls; and while no call is under way the cursor is the number
\* of calls made, mod n.
C20_RoundRobin ==
    LET n == Len(http_rpcs)
    IN /\ http_rpc_cursor.value \in 0..(n - 1)
       /\ \A k \in 1..Len(picks) :
             /\ picks[k].idx = (k - 1) % n
             /\ picks[k].http_rpc = http_rpcs[picks[k].idx + 1].url
       /\ \A k, l \in 1..Len(picks) :
             (k < l /\ l - k < n) => picks[k].idx # picks[l].idx
       /\ http_rpc_cursor.holder = 0 => http_rpc_cursor.value = Len(picks) % n

\* C20 happens: two callers have shared four calls over three endpoints, the
\* fourth wrapping round to index 0.
C20_Witness ==
    /\ Len(http_rpcs) = 3
    /\ Len(picks) = 4
    /\ picks[1].caller # picks[2].caller
    /\ picks[3].idx = 2
    /\ picks[4].idx = 0

\* C21 as claimed (under Spec): a get_block whose inner call failed with an
\* error that has no error code returns a transport error status to the host:
\* neither a response body nor an abort of the handler.
C21_Claim ==
    \A r \in Reqs :
        (/\ req[r].kind = "get_block"
         /\ pc[r] = "done"
         /\ calls[r] # <<>>
         /\ local[r].block = NoBlock
         /\ ~ErrorToErrorCode(resp[r].fail).ok) =>
            resp[r].transport \notin {"Ok", "Panic"}

\* C22 as claimed (under SpecPump): a pump whose receiver saw the channel
\* closed has ended silently: no notify was issued after the closure, nothing
\* was logged as an error and the task returned no error status.
C22_Claim ==
    \A r \in Reqs :
        pump[r].st = "closed" =>
            /\ Len(notified[r]) = pumpExit[r].notifies
            /\ pumpExit[r].logged = "none"
            /\ pumpExit[r].status = "none"

\* C23 (lock modes, under SpecLocks): whenever a handler invokes a method of
\* the inner VM (or of a block it got from it), it is the handler of an RPC
\* that takes the lock and it holds the lock in that RPC's mode at that
\* moment: the write lock for initialize, create_handlers,
\* create_static_handlers, build_block, parse_block and set_state, the read
\* lock for get_block, block_verify, block_accept, block_reject,
\* set_preference, health, version, connected, disconnected, app_request,
\* app_request_failed, app_response and app_gossip.
C23_LockModes ==
    [][\A r \in Reqs :
          calls'[r] # calls[r] =>
             \/ /\ req[r].kind \in {"initialize", "create_handlers", "create_static_handlers",
                                    "build_block", "parse_block", "set_state"}
                /\ vmLock.writer = r
             \/ /\ req[r].kind \in {"get_block", "block_verify", "block_accept", "block_reject",
                                    "set_preference", "health", "version", "connected",
                                    "disconnected", "app_request", "app_request_failed",
                                    "app_response", "app_gossip"}
                /\ r \in vmLock.readers
                /\ vmLock.writer = 0]_vars

\* C23's case: a write-lock RPC and a read-lock RPC have both called the
\* inner VM, and one more read-lock RPC has called it twice.
C23_Witness ==
    \E r1, r2 \in Reqs :
        /\ req[r1].kind = "build_block" /\ Len(calls[r1]) = 1
        /\ req[r2].kind = "block_verify" /\ Len(calls[r2]) = 2

\* C24 (shutdown cancels nothing, under SpecStop): the shutdown handler never
\* waits for, acquires or holds the VM lock; the step in which it returns
\* leaves the lock, the lock queue and every other handler's position and
\* response as they were; and a handler that is in progress once the stop
\* signal has been sent still returns, with a response and without the lock.
C24_ShutdownNoCancel ==
    /\ [](\A r \in Reqs :
             req[r].kind = "shutdown" =>
                /\ pc[r] # "lock"
                /\ ~Holds(r)
                /\ \A i \in 1..Len(lockQueue) : lockQueue[i] # r)
    /\ [][\A r \in Reqs :
             (req[r].kind = "shutdown" /\ pc[r] = "nolock" /\ pc'[r] = "done") =>
                /\ vmLock' = vmLock
                /\ lockQueue' = lockQueue
                /\ \A p \in Reqs \ {r} : pc'[p] = pc[p] /\ resp'[p] = resp[p]]_vars
    /\ \A r \in Reqs :
          (pc[r] \notin {"idle", "done"} /\ stop_ch.sent > 0)
             ~> (pc[r] = "done" /\ ~Holds(r) /\ resp[r].transport \in {"Ok", StatusUnknown})

\* C24's case: shutdown has returned Ok while another handler holds the write
\* lock and is about to call the inner VM.
C24_Witness ==
    \E r1, r2 \in Reqs :
        /\ req[r1].kind = "shutdown" /\ pc[r1] = "done" /\ resp[r1].transport = "Ok"
        /\ req[r2].kind = "create_handlers" /\ pc[r2] = "vm_call" /\ vmLock.writer = r2

\* C25 (fetch, then decide once; under SpecBlocks): a block_accept or
\* block_reject handler calls get_block of the request's id first; it calls
\* accept (reject for block_reject) on the block only after a successful
\* fetch, and once; a failed fetch returns a transport error with accept or
\* reject never called, a failed accept or reject returns a transport error,
\* and otherwise the response is an empty success.
C25_FetchThenDecide ==
    \A r \in Reqs :
        req[r].kind \in {"block_accept", "block_reject"} =>
            LET decide == IF req[r].kind = "block_accept" THEN "Accepted" ELSE "Rejected"
            IN /\ Len(calls[r]) <= 2
               /\ Len(calls[r]) >= 1 => calls[r][1] = <<"get_block", req[r].id>>
               /\ Len(calls[r]) = 2 => calls[r][2] = <<decide, req[r].id>>
               /\ pc[r] = "decide" => Len(calls[r]) = 1
               /\ pc[r] = "done" =>
                     /\ resp[r].body = NoBody
                     /\ \/ /\ Len(calls[r]) = 1
                           /\ resp[r].fail = "get_block"
                           /\ resp[r].transport = StatusUnknown
                        \/ /\ Len(calls[r]) = 2
                           /\ resp[r].fail = "decide"
                           /\ resp[r].transport = StatusUnknown
                        \/ /\ Len(calls[r]) = 2
                           /\ resp[r].fail = "none"
                           /\ resp[r].transport = "Ok"
                           /\ blockStatus[req[r].id] \in {"Accepted", "Rejected"}

\* C25's case: a block_accept went through both calls and returned Ok, and a
\* block_reject returned a transport error after a failed fetch.
C25_Witness ==
    \E r1, r2 \in Reqs :
        /\ req[r1].kind = "block_accept" /\ pc[r1] = "done"
        /\ Len(calls[r1]) = 2 /\ resp[r1].transport = "Ok"
        /\ req[r2].kind = "block_reject" /\ pc[r2] = "done"
        /\ Len(calls[r2]) = 1 /\ resp[r2].transport = StatusUnknown

\* C26 (parse, then verify; under SpecLocks): a block_verify handler calls
\* parse_block on the request's bytes first and verify only on a block that
\* parse_block returned; a response with a timestamp is returned only after
\* both succeeded (and it then carries the block's timestamp whenever that is
\* a number of seconds chrono represents); a failed parse returns a transport
\* error with verify never called, a failed verify returns a transport error,
\* and neither response has a timestamp.
C26_ParseThenVerify ==
    \A r \in Reqs :
        req[r].kind = "block_verify" =>
            /\ Len(calls[r]) <= 2
            /\ Len(calls[r]) >= 1 => calls[r][1] = <<"parse_block", req[r].payload>>
            /\ Len(calls[r]) = 2 =>
                  /\ local[r].block # NoBlock
                  /\ calls[r][2] = <<"verify", local[r].block.id>>
            /\ pc[r] = "verify" => (Len(calls[r]) = 1 /\ local[r].block # NoBlock)
            /\ (pc[r] = "done" /\ resp[r].transport = "Ok") =>
                  /\ Len(calls[r]) = 2
                  /\ resp[r].fail = "none"
                  /\ resp[r].body.timestamp.nanos = 0
                  /\ local[r].block.timestamp <= ChronoMaxSecs =>
                        resp[r].body.timestamp.seconds = local[r].block.timestamp
            /\ (pc[r] = "done" /\ local[r].block = NoBlock) =>
                  /\ Len(calls[r]) = 1
                  /\ resp[r].fail = "parse_block"
                  /\ resp[r].transport = StatusUnknown
                  /\ resp[r].body = NoBody
            /\ (pc[r] = "done" /\ resp[r].fail = "verify") =>
                  /\ Len(calls[r]) = 2
                  /\ resp[r].transport = StatusUnknown
                  /\ resp[r].body = NoBody

\* C26's case: one block_verify returned a timestamp after both calls, another
\* returned a transport error after a failed parse.
C26_Witness ==
    \E r1, r2 \in Reqs :
        /\ req[r1].kind = "block_verify" /\ pc[r1] = "done"
        /\ resp[r1].transport = "Ok" /\ resp[r1].body.timestamp.seconds = 1
        /\ req[r2].kind = "block_verify" /\ pc[r2] = "done"
        /\ Len(calls[r2]) = 1 /\ resp[r2].transport = StatusUnknown

\* C27 as claimed (under SpecLocks): whenever initialize, build_block,
\* parse_block, get_block, set_state or block_verify has a block from the
\* inner VM to answer with, it answers, and the response carries
\* {seconds = t, nanos = 0} for the block's timestamp t: the conversion
\* neither changes the value nor aborts the handler.
C27_Claim ==
    \A r \in Reqs :
        (/\ req[r].kind \in {"initialize", "build_block", "parse_block", "get_block",
                             "set_state", "block_verify"}
         /\ pc[r] = "done"
         /\ local[r].block # NoBlock
         /\ resp[r].fail \in {"none", "timestamp"}) =>
            /\ resp[r].transport = "Ok"
            /\ resp[r].body.timestamp = [seconds |-> local[r].block.timestamp, nanos |-> 0]

\* C28 as claimed (under SpecEvents): a connected, disconnected, app_request,
\* app_request_failed, app_response or app_gossip handler that has returned
\* called its inner-VM method exactly once, with the request's node id,
\* request id and payload and, for app_request, the time point of the
\* request's {seconds, nanos} deadline, and answered with an empty success or
\* with transport Unknown; before it returns it has made no other call.
C28_Claim ==
    \A r \in Reqs :
        LET q == req[r]
            args == CASE q.kind \in {"connected", "disconnected"} -> q.id
                      [] q.kind = "app_request" ->
                            [node_id |-> q.id, request_id |-> q.request_id,
                             deadline |-> [secs |-> q.deadline.seconds,
                                           nsecs |-> q.deadline.nanos],
                             payload |-> q.payload]
                      [] OTHER ->
                            [node_id |-> q.id, request_id |-> q.request_id,
                             deadline |-> [secs |-> 0, nsecs |-> 0],
                             payload |-> q.payload]
        IN q.kind \in {"connected", "disconnected"} \cup AppKinds =>
              /\ pc[r] # "done" => calls[r] = <<>>
              /\ pc[r] = "done" =>
                    /\ calls[r] = << <<q.kind, args>> >>
                    /\ resp[r].body = NoBody
                    /\ \/ resp[r].transport = "Ok" /\ resp[r].fail = "none"
                       \/ resp[r].transport = StatusUnknown /\ resp[r].fail = q.kind

\* C29 (bounded channel, under SpecChannel): the channel never holds more
\* than 100 messages that the pump has not received; a send completes only
\* when the channel holds fewer than 100, so a send on a full channel has to
\* wait for the pump to receive; and while the pump runs every enqueued
\* message is either notified, in flight or still queued, in order.
C29_BoundedChannel ==
    /\ [](\A r \in Reqs : Len(rx_engine[r]) <= 100)
    /\ [][\A r \in Reqs :
             enqueued'[r] # enqueued[r] =>
                /\ Len(rx_engine[r]) < 100
                /\ Len(enqueued'[r]) = Len(enqueued[r]) + 1
                /\ rx_engine'[r] = Append(rx_engine[r], enqueued'[r][Len(enqueued'[r])])]_vars
    /\ [](\A r \in Reqs :
             pump[r].st \in {"recv", "notify"} =>
                enqueued[r] = NotifiedMsgs(notified[r])
                              \o (IF pump[r].st = "notify" THEN <<pump[r].msg>> ELSE <<>>)
                              \o rx_engine[r])

\* C29's case: the channel is full again after the pump has taken messages
\* out of a full channel: 100 are queued and more than 100 were sent.
C29_Witness ==
    /\ Len(rx_engine[1]) = 100
    /\ Len(enqueued[1]) = 102
    /\ pump[1].st = "notify"

\* C30 as claimed (under Spec): a create_handlers or create_static_handlers
\* that answers Ok has allocated one socket address, subscribed one receiver
\* and started one sub-server for each descriptor that has a router, each with
\* a fresh address of its own, which is the one the response reports; for the
\* descriptors without a router it has allocated, subscribed and started
\* nothing.
C30_Claim ==
    [][\A r \in Reqs :
          (/\ req[r].kind \in {"create_handlers", "create_static_handlers"}
           /\ pc[r] = "vm_call"
           /\ pc'[r] = "done"
           /\ resp'[r].transport = "Ok") =>
             LET routed == WithRouter(local'[r].handlers)
                 out == resp'[r].body.handlers
                 started == SubSeq(servers', Len(servers) + 1, Len(servers'))
             IN /\ addrs' - addrs = Len(routed)
                /\ Len(started) = Len(routed)
                /\ Len(out) = Len(routed)
                /\ \A k \in 1..Len(routed) :
                      /\ started[k].prefix = routed[k].prefix
                      /\ started[k].st = "serving"
                      /\ started[k].server_addr > addrs
                      /\ out[k].server_addr = started[k].server_addr
                /\ \A k, l \in 1..Len(started) :
                      k # l => started[k].server_addr # started[l].server_addr]_vars

\* C31 (set_state is atomic, under SpecLocks): from its lock acquisition to
\* its return a set_state handler is the writer of the lock with no reader
\* beside it; between its inner set_state and its return no other handler
\* calls the inner VM and no block of the inner VM is decided; and an Ok
\* response comes from the calls set_state, last_accepted and get_block of
\* the id last_accepted gave, made in that one hold, and carries that id and
\* the block get_block returned.
C31_SetStateAtomic ==
    /\ [](\A r \in Reqs :
             (req[r].kind = "set_state"
              /\ pc[r] \in {"vm_set_state", "last_accepted", "get_block"}) =>
                (vmLock.writer = r /\ vmLock.readers = {}))
    /\ [][\A r \in Reqs :
             (req[r].kind = "set_state" /\ pc[r] \in {"last_accepted", "get_block"}) =>
                /\ \A p \in Reqs \ {r} : calls'[p] = calls[p]
                /\ blockStatus' = blockStatus
                /\ vmState' = vmState]_vars
    /\ [](\A r \in Reqs :
             (req[r].kind = "set_state" /\ pc[r] = "done" /\ resp[r].transport = "Ok") =>
                /\ Len(calls[r]) = 3
                /\ calls[r][1] = <<"set_state", req[r].state>>
                /\ calls[r][2] = <<"last_accepted", 0>>
                /\ calls[r][3] = <<"get_block", resp[r].body.last_accepted_id>>
                /\ resp[r].body.parent_id = local[r].block.parent
                /\ resp[r].body.height = local[r].block.height
                /\ resp[r].body.bytes = local[r].block.bytes)

\* C31's case: a set_state handler is between last_accepted and get_block
\* while a block_accept waits for the lock.
C31_Witness ==
    \E r1, r2 \in Reqs :
        /\ req[r1].kind = "set_state" /\ pc[r1] = "get_block" /\ Len(calls[r1]) = 2
        /\ req[r2].kind = "block_accept" /\ pc[r2] = "lock"

\* C32 (shutdown needs a receiver, under SpecStop): the step in which the
\* shutdown handler returns answers Ok exactly when, at that moment, a
\* receiver of the stop channel is alive (the one its creator holds or the
\* one of a sub-server that is still serving), and then the signal is sent;
\* with no receiver alive it answers transport Unknown and nothing is sent.
C32_ShutdownNeedsReceiver ==
    [][\A r \in Reqs :
          (req[r].kind = "shutdown" /\ pc[r] = "nolock" /\ pc'[r] = "done") =>
             LET alive == stop_ch.outside
                          \/ \E i \in 1..Len(servers) : servers[i].st = "serving"
             IN /\ alive =>
                      /\ resp'[r].transport = "Ok"
                      /\ stop_ch'.sent = stop_ch.sent + 1
                /\ ~alive =>
                      /\ resp'[r].transport = StatusUnknown
                      /\ stop_ch' = stop_ch
                      /\ servers' = servers]_vars

\* C32's case: no sub-server was ever created and nobody else holds a
\* receiver, and a shutdown has returned transport Unknown.
C32_Witness ==
    \E r \in Reqs :
        /\ req[r].kind = "shutdown" /\ pc[r] = "done"
        /\ resp[r].transport = StatusUnknown
        /\ servers = <<>>
        /\ ~stop_ch.outside

\* C33 (no roll-back, under Spec): when create_handlers or
\* create_static_handlers returns Unknown because a serve failed, the
\* loop stopped at the failing descriptor (the last one it took an address
\* for), which has a router; the sub-servers the call started are exactly
\* those of the descriptors with a router that came before it, in order; they
\* are serving, each with its receiver of the stop channel, the sub-servers
\* that ran before the call are untouched, none was started for a later
\* descriptor, and the response reports no address.
C33_NoRollBack ==
    [][\A r \in Reqs :
          (/\ req[r].kind \in {"create_handlers", "create_static_handlers"}
           /\ pc[r] = "vm_call"
           /\ pc'[r] = "done"
           /\ resp'[r].fail = "serve") =>
             LET visited == addrs' - addrs
                 routed == WithRouter(SubSeq(local'[r].handlers, 1, visited - 1))
                 started == SubSeq(servers', Len(servers) + 1, Len(servers'))
             IN /\ resp'[r].transport = StatusUnknown
                /\ resp'[r].body.handlers = <<>>
                /\ SubSeq(servers', 1, Len(servers)) = servers
                /\ visited \in 1..Len(local'[r].handlers)
                /\ local'[r].handlers[visited].router
                /\ Len(started) = Len(routed)
                /\ \A k \in 1..Len(started) :
                      /\ started[k].prefix = routed[k].prefix
                      /\ started[k].owner = r
                      /\ started[k].st = "serving"
                      /\ ~started[k].signal]_vars

\* C33's case: of two descriptors with a router the second failed to start:
\* the call returned Unknown and the first one's sub-server is serving.
C33_Witness ==
    \E r \in Reqs :
        /\ req[r].kind = "create_handlers" /\ pc[r] = "done"
        /\ resp[r].transport = StatusUnknown /\ resp[r].fail = "serve"
        /\ Len(WithRouter(local[r].handlers)) = 2
        /\ \E i \in 1..Len(servers) :
              /\ servers[i].owner = r
              /\ servers[i].st = "serving"
              /\ servers[i].prefix = local[r].handlers[1].prefix

\* C34 (parse_block under the read lock, under SpecLocks): a block_verify
\* handler makes its inner parse_block and verify calls as a reader of the
\* lock, with no writer, so that no handler of a write-lock RPC is between
\* its lock acquisition and its return at that time, while other read-lock
\* handlers may be; a parse_block handler makes its call as the writer, with
\* no other handler between lock acquisition and return.
C34_ParseUnderReadLock ==
    LET Locked(r) ==
            pc[r] \in {"vm_initialize", "vm_set_state", "vm_call", "last_accepted",
                       "get_block", "decide", "verify"}
    IN \A r \in Reqs :
          /\ (req[r].kind = "block_verify" /\ Locked(r)) =>
                /\ r \in vmLock.readers
                /\ vmLock.writer = 0
                /\ \A p \in Reqs : Locked(p) => req[p].kind \notin WriteKinds
          /\ (req[r].kind = "parse_block" /\ Locked(r)) =>
                /\ vmLock.writer = r
                /\ vmLock.readers = {}
                /\ \A p \in Reqs \ {r} : ~Locked(p)

\* C34's case: two block_verify handlers hold the read lock together, both
\* about to call the inner parse_block.
C34_Witness ==
    \E r1, r2 \in Reqs :
        /\ r1 # r2
        /\ req[r1].kind = "block_verify" /\ pc[r1] = "vm_call"
        /\ req[r2].kind = "block_verify" /\ pc[r2] = "vm_call"
        /\ vmLock.readers = {r1, r2}

\* C35 (one acquisition, always released, under SpecFair): a handler asks for
\* the lock only when it neither holds it nor waits for it and has not
\* returned, it is granted the lock only while waiting at the head of the
\* queue, it gives the lock up only by returning, a handler that has returned
\* stays returned and neither holds the lock nor waits for it; and every
\* request the host has issued is eventually answered, after which the lock
\* is eventually free with nobody waiting.
C35_LockDiscipline ==
    /\ [](LET Waits(r) == \E k \in 1..Len(lockQueue) : lockQueue[k] = r
          IN \A r \in Reqs :
                /\ ~(Holds(r) /\ Waits(r))
                /\ ~(vmLock.writer = r /\ r \in vmLock.readers)
                /\ Cardinality({k \in 1..Len(lockQueue) : lockQueue[k] = r}) <= 1
                /\ pc[r] = "done" => ~Holds(r) /\ ~Waits(r))
    /\ [][LET Waits(r) == \E k \in 1..Len(lockQueue) : lockQueue[k] = r
              Waits2(r) == \E k \in 1..Len(lockQueue') : lockQueue'[k] = r
              Holds2(r) == vmLock'.writer = r \/ r \in vmLock'.readers
          IN \A r \in Reqs :
                /\ (Waits2(r) /\ ~Waits(r)) =>
                      ~Holds(r) /\ pc[r] \notin {"lock", "done"} /\ pc'[r] = "lock"
                /\ (Holds2(r) /\ ~Holds(r)) =>
                      pc[r] = "lock" /\ Head(lockQueue) = r /\ ~Waits2(r)
                /\ (Holds(r) /\ ~Holds2(r)) => pc'[r] = "done"
                /\ pc[r] = "done" => pc'[r] = "done"]_vars
    /\ \A r \in Reqs : (pc[r] # "idle") ~> (pc[r] = "done")
    /\ <>[](vmLock.writer = 0 /\ vmLock.readers = {} /\ lockQueue = <<>>)

\* C35's case: a set_state handler has left through an error return taken
\* under the write lock, another write-lock handler has returned a response,
\* and the lock is free with nobody waiting.
C35_Witness ==
    \E r1, r2 \in Reqs :
        /\ r1 # r2
        /\ req[r1].kind = "set_state" /\ pc[r1] = "done"
        /\ resp[r1].transport = StatusUnknown /\ resp[r1].fail = "last_accepted"
        /\ req[r2].kind \in WriteKinds /\ pc[r2] = "done"
        /\ resp[r2].transport = "Ok"
        /\ vmLock.writer = 0 /\ vmLock.readers = {} /\ lockQueue = <<>>

====
